---- MODULE Spec2Model ----
(***************************************************************************)
(* Verification model of the OpenMANET manager daemon (openmanetd).        *)
(*                                                                         *)
(* Part A: the address-reservation worker (mgmt.AddressReservationWorker)  *)
(*         of several nodes sharing one Alfred record store.               *)
(* Part B: the supervisor and the shutdown channel shared by the worker    *)
(*         loops.                                                          *)
(* Part C: the gateway worker's receive tick and the default route.        *)
(* Part D: the push-to-talk pipeline (HID monitor, tones, mic stream,      *)
(*         receive loop and playback callback).                            *)
(* Part E: the start and the termination of the push-to-talk subsystem     *)
(*         inside the supervisor.                                          *)
(* Part F: the selection functions of the address reservation applied to   *)
(*         record sets of any size.                                        *)
(* Part G: the accessors of the dhcpconfigured flag called in sequence.    *)
(* Part H: one worker loop, its ticker and its mesh-config probe in time.  *)
(* Part I: the push-to-talk receive loop with the sources of the frames.   *)
(*                                                                         *)
(* Every part has its own initial predicate and next-state relation; the   *)
(* variables of the other parts are held constant.                         *)
(***************************************************************************)
EXTENDS Integers, Sequences, FiniteSets, TLC

VARIABLES
    \* ---- Part A: address reservation ----
    live,        \* the nodes that run the daemon
    gwServer,    \* the nodes whose batman-adv gw_mode is "server"
    omDisk,      \* /etc/config/openmanetd: option dhcpconfigured, per node
    omCache,     \* the same option as loaded in the go-uci default tree
    netDisk,     \* /etc/config/network: ipaddr of the mesh section
    dhcpDisk,    \* /etc/config/dhcp: <<start, limit>> of the mesh section
    dhcpCache,   \* the dhcp section as loaded in the go-uci default tree
    bridgeIP,    \* the IPv4 address the bridge interface carries
    alfred,      \* Alfred store: latest AddressReservation per origin
    sendPc,      \* position of StartSend inside its tick
    tick,        \* steps and failure of the latest receive tick, per node
    crashed,     \* the daemon of the node has panicked
    faults,      \* number of injected platform failures
    restarts,    \* number of daemon restarts
    \* ---- Part B: supervisor and shutdown channel ----
    enabled,     \* worker pairs enabled in the configuration
    sup,         \* position of openmanet.Start
    loops,       \* state of every worker loop
    sigChan,     \* number of values buffered in the os.Signal channel c
    delivered,   \* number of termination signals sent to the process
    \* ---- Part C: gateway worker ----
    gwMode,      \* gw_mode of the local mesh interface
    gwRecords,   \* Gateway records Alfred returns, in order
    batGwys,     \* gateway list of "batctl gwj", in order
    route,       \* the IPv4 default route of the main table
    gwTick,      \* observation of the latest gateway receive tick
    gwPanic,     \* the daemon panicked inside the gateway receive tick
    gwFaults,    \* number of injected platform failures in gateway ticks
    envChanges,  \* number of changes of the mesh, the gossip or the routes
    gwStore,     \* Alfred store: the Gateway record this node has published
    \* ---- Part D: push-to-talk ----
    broadcasting,    \* the mutex-protected flag "broadcasting"
    micActive,       \* the mic stream (broadcastStream) is started
    playbackBuffer,  \* frames buffered in the channel playbackBuffer
    pttPc,           \* position of the monitorPTT goroutine
    run,             \* observation of the current run of equal HID events
    opLog,           \* stream and tone operations of the event being handled
    hidCount,        \* number of HID events read
    pttFaults,       \* number of failed calls of the mic stream
    recvLog,         \* what the receive loop logged for the latest frame
    \* ---- Part E: start and termination of push-to-talk ----
    pttOn,       \* ptt.enable of the configuration
    pttMain,     \* position of PTTConfig.Start
    pttHandler,  \* position of the signal goroutine of PTTConfig.Start
    pttSigs,     \* number of values buffered in the channel sigs
    pttC,        \* number of values buffered in the channel c of PTTConfig.Start
    res,         \* the resources PTTConfig.Start holds
    \* ---- Part F: selection functions ----
    selIn,       \* the arguments: record set, gateway mode, desired limit
    selOut,      \* the results of the calls made so far
    \* ---- Part G: the accessors of the dhcpconfigured flag ----
    flagCalls,   \* the successful SetDHCPConfigured/ClearDHCPConfigured calls
    flagAnswer,  \* what IsDHCPConfigured returned since the last of them
    \* ---- Part H: one worker loop and its ticker in time ----
    now,         \* the time, in ticker periods
    tickerC,     \* number of ticks buffered in the channel ticker.C
    running,     \* number of tick bodies of the loop that are executing
    burst,       \* ticks the loop has started since the ticker last fired
    missed,      \* ticks the ticker dropped because ticker.C was full
    meshAt,      \* the time of the latest successful mesh-config probe
    cliCalls,    \* number of invocations of the mesh CLI (batctl mj)
    \* ---- Part I: the receive loop of push-to-talk and the frame sources ----
    loopbackAudio,  \* the package variable loopbackAudio
    localIP,        \* the package variable localIP
    playbackSrc     \* the source addresses of the frames queued for playback

varsA == <<live, gwServer, omDisk, omCache, netDisk, dhcpDisk, dhcpCache,
           bridgeIP, alfred, sendPc, tick, crashed, faults, restarts>>
varsB == <<enabled, sup, loops, sigChan, delivered>>
varsC == <<gwMode, gwRecords, batGwys, route, gwTick, gwPanic, gwFaults, envChanges,
           gwStore>>
varsD == <<broadcasting, micActive, playbackBuffer, pttPc, run, opLog, hidCount,
           pttFaults, recvLog>>
varsE == <<pttOn, pttMain, pttHandler, pttSigs, pttC, res>>
varsF == <<selIn, selOut>>
varsG == <<flagCalls, flagAnswer>>
varsH == <<now, tickerC, running, burst, missed, meshAt, cliCalls>>
varsI == <<loopbackAudio, localIP, playbackSrc>>
vars  == <<varsA, varsB, varsC, varsD, varsE, varsF, varsG, varsH, varsI>>

----------------------------------------------------------------------------
(* Bounds *)
MaxFaults   == 1
MaxRestarts == 1
MaxSignals  == 1
MaxEnvChanges == 2

----------------------------------------------------------------------------
(* Part A: address reservation                                             *)

NumNodes == 3
Nodes    == 1..NumNodes

\* An IPv4 address 10.41.t.h is the number 256*t + h; NoIP is "no address".
NoIP     == -1
\* The first address of the interface is an IPv6 address (To4() is nil)
V6Addr   == -2
\* The first address of the interface is 127.0.0.1 (IsLoopback) or 0.0.0.0
\* (IsUnspecified)
LoopbackAddr    == -3
UnspecifiedAddr == -4
IP(t, h) == 256 * t + h

DefaultDHCPAddressLimit == 150
\* (1 << (32-16)) - 2 for DefaultNetworkAddress/DefaultNetworkMask
NetworkSize == 65534

NoRec == [present |-> FALSE, mac |-> 0, ip |-> NoIP, start |-> 0, limit |-> 0, req |-> FALSE]

\* A payload that is no encoding of a proto.AddressReservation
Garbage == [present |-> TRUE, payload |-> "garbage"]

\* addrRes.UnmarshalVT(record.Data) returns no error
Decodable(r) == "mac" \in DOMAIN r

\* proto.AddressReservation as published by StartSend
RequestRec(n, ip) ==
    [present |-> TRUE, mac |-> n, ip |-> ip, start |-> 0, limit |-> 0, req |-> TRUE]

\* Client.Request(AddressReservationDataType): the latest record of every origin
Request == {alfred[m] : m \in {k \in Nodes : alfred[k].present}}

\* network.IsDHCPConfiguredWithReader: [configured, err] for a stored value
IsDHCPConfiguredWithReader(v) ==
    IF v = "0" \/ v = "" THEN [configured |-> FALSE, err |-> FALSE]
    ELSE IF v \in {"1", "2"} THEN [configured |-> (v = "1"), err |-> FALSE]
    ELSE [configured |-> FALSE, err |-> TRUE]

\* UCIOpenMANETConfigReader.Get reads the go-uci default tree (uci.Get), which
\* loads a config file on first access and keeps it in memory afterwards.
OMGet(n) == IF omCache[n] = "unloaded" THEN omDisk[n] ELSE omCache[n]

\* reservedIPs that would hold the addresses of requesting records only
ReservedIPsOfRequesters(records) ==
    {r.ip : r \in {x \in records : Decodable(x) /\ x.ip # NoIP /\ x.req}}

\* reservedIPs of SelectAvailableStaticIP: the map starts empty and gets the
\* StaticIp of every record that decodes and has one
ReservedIPs(records) ==
    LET ips == {r.ip : r \in {x \in records : Decodable(x) /\ x.ip # NoIP}}
    IN  IF ips = {} THEN {} ELSE ips

\* for fourthOctet := h; fourthOctet < 255; fourthOctet++: the first candidate
\* 10.41.t.x that is not reserved is returned, NoIP when the loop runs out
ScanFourthOctet(t, h, reserved) ==
    IF \E x \in h..254 : IP(t, x) \notin reserved
    THEN IP(t, CHOOSE x \in h..254 :
                  /\ IP(t, x) \notin reserved
                  /\ \A y \in h..(x - 1) : IP(t, y) \in reserved)
    ELSE NoIP

\* A scan of the third octets that would not skip 253 and 254
ScanThirdOctetNoSkip(t, reserved) ==
    LET Open(x) == \E h \in 1..254 : IP(x, h) \notin reserved
    IN  IF \E x \in t..255 : Open(x)
        THEN ScanFourthOctet(CHOOSE x \in t..255 :
                                /\ Open(x)
                                /\ \A y \in t..(x - 1) : ~Open(y),
                             1, reserved)
        ELSE NoIP

\* for thirdOctet := t; thirdOctet < 256; thirdOctet++: 253 and 254 are
\* skipped, the first third octet whose inner loop returns decides
ScanThirdOctet(t, reserved) ==
    LET Open(x) == x # 253 /\ x # 254 /\ \E h \in 1..254 : IP(x, h) \notin reserved
    IN  IF \E x \in t..255 : Open(x)
        THEN ScanFourthOctet(CHOOSE x \in t..255 :
                                /\ Open(x)
                                /\ \A y \in t..(x - 1) : ~Open(y),
                             1, reserved)
        ELSE NoIP

\* A selection that would go on into the normal range when the gateway
\* range is full
SelectAvailableStaticIPFallThrough(records, gatewayMode) ==
    LET inGateway == ScanFourthOctet(0, 1, ReservedIPs(records))
    IN  IF gatewayMode /\ inGateway # NoIP THEN inGateway
        ELSE ScanThirdOctet(1, ReservedIPs(records))

\* network.SelectAvailableStaticIP; NoIP stands for the error return
SelectAvailableStaticIP(records, gatewayMode) ==
    IF gatewayMode THEN ScanFourthOctet(0, 1, ReservedIPs(records))
    ELSE ScanThirdOctet(1, ReservedIPs(records))

\* rangesOverlap
rangesOverlapStrict(start1, end1, start2, end2) == start1 <= end2 /\ start2 < end1

rangesOverlap(start1, end1, start2, end2) == start1 <= end2 /\ start2 <= end1

\* Go int of a 32-bit build; the int of a 64-bit build wraps in the same way
\* at 2^63 - 1
IntMax == 2147483647
IntMin == -IntMax - 1

\* a + b on Go ints: the sum wraps around at the width of int
AddInt(a, b) ==
    IF a >= 0 /\ b >= 0 /\ b > IntMax - a THEN IntMin + (b - (IntMax - a) - 1)
    ELSE IF a < 0 /\ b < 0 /\ b < IntMin - a THEN IntMax - ((IntMin - a) - b - 1)
    ELSE a + b

\* start + limit - 1, candidate + desiredLimit - 1
RangeEnd(start, limit) == AddInt(AddInt(start, limit), -1)

\* existingRanges of CalculateAvailableDHCPStart, as <<Start, End>> pairs
ExistingRanges(records) ==
    {<<r.start, RangeEnd(r.start, r.limit)>> :
        r \in {x \in records : Decodable(x) /\ x.start > 0 /\ x.limit > 0}}

\* One pass of the gap search: sort.Slice orders the ranges by Start, the
\* candidate moves behind the first range it overlaps; 0 = pass exhausted.
RECURSIVE SearchGap(_, _, _)
SearchGap(candidate, desiredLimit, ranges) ==
    LET proposedEnd == RangeEnd(candidate, desiredLimit)
    IN  IF proposedEnd > NetworkSize THEN 0
        ELSE LET hits  == {r \in ranges :
                             rangesOverlap(candidate, proposedEnd, r[1], r[2])}
                 first == CHOOSE r \in hits :
                             \A q \in hits : r[1] < q[1] \/ (r[1] = q[1] /\ r[2] <= q[2])
             IN  IF hits = {} THEN candidate
                 ELSE SearchGap(AddInt(first[2], 1), desiredLimit, ranges)

\* network.CalculateAvailableDHCPStart; 0 stands for the error return
CalculateAvailableDHCPStart(records, desiredLimit) ==
    IF desiredLimit <= 0 THEN 0
    ELSE LET ranges == ExistingRanges(records)
             pass1  == SearchGap(100, desiredLimit, ranges)
         IN  IF pass1 # 0 THEN pass1 ELSE SearchGap(1, desiredLimit, ranges)


----------------------------------------------------------------------------
(* Receive tick of the address-reservation worker.  The tick is one atomic  *)
(* step; f names the platform call that fails in it ("none": no failure).   *)

ConfFails   == {"request", "respond"}
UnconfFails == {"request", "mesh", "netset", "dhcpset", "dhcpreload", "reload", "flag"}
FailPoints  == ConfFails \cup UnconfFails

NoTick == [branch |-> "none", log |-> <<>>, fail |-> "none", decodeErrs |-> 0]

\* Per-node values a receive tick starts from.
TickStart(n) ==
    [net |-> netDisk[n], dhcp |-> dhcpDisk[n], dcache |-> dhcpCache[n],
     bridge |-> bridgeIP[n], om |-> omDisk[n], rec |-> alfred[n],
     ip |-> NoIP, start |-> 0, log |-> <<>>, fail |-> "none", decodeErrs |-> 0]

\* batmanadv.GetMeshConfig
StepMesh(st, f) ==
    IF f = "mesh" THEN [st EXCEPT !.fail = "mesh"] ELSE st

\* network.SelectAvailableStaticIP(records, meshCfg.IsGatewayMode())
StepSelectIP(st, records, gatewayMode) ==
    IF st.fail # "none" THEN st
    ELSE LET staticIP == SelectAvailableStaticIP(records, gatewayMode)
         IN  IF staticIP = NoIP THEN [st EXCEPT !.fail = "selectip"]
             ELSE [st EXCEPT !.ip = staticIP]

\* network.SetNetworkConfigWithReader: options are staged in the reader's
\* tree and reach the file with Commit; an error before or in Commit leaves
\* the file as it was.
StepNetWrite(st, f) ==
    IF st.fail # "none" THEN st
    ELSE IF f = "netset" THEN [st EXCEPT !.fail = "netset"]
    ELSE [st EXCEPT !.net = st.ip, !.log = Append(@, "net")]

\* network.CalculateAvailableDHCPStart(records, ..., DefaultDHCPAddressLimit)
StepDHCPStart(st, records) ==
    IF st.fail # "none" THEN st
    ELSE LET dhcpStart == CalculateAvailableDHCPStart(records, DefaultDHCPAddressLimit)
         IN  IF dhcpStart = 0 THEN [st EXCEPT !.fail = "dhcpstart"]
             ELSE [st EXCEPT !.start = dhcpStart]

\* network.SetDHCPConfigWithReader: AddSection goes to the default tree and
\* loads the dhcp file there; SetType and Commit go to the reader's tree; the
\* ReloadConfig after Commit may still fail.
StepDHCPWrite(st, f) ==
    IF st.fail # "none" THEN st
    ELSE LET loaded == [st EXCEPT !.dcache = IF @ = <<>> THEN st.dhcp ELSE @]
         IN  IF f = "dhcpset" THEN [loaded EXCEPT !.fail = "dhcpset"]
             ELSE LET written == [loaded EXCEPT
                                    !.dhcp = <<st.start, DefaultDHCPAddressLimit>>,
                                    !.log  = Append(@, "dhcp")]
                  IN  IF f = "dhcpreload" THEN [written EXCEPT !.fail = "dhcpreload"]
                      ELSE written

\* network.ReloadNetwork: /etc/init.d/network reload applies the network file
StepReload(st, f) ==
    IF st.fail # "none" THEN st
    ELSE IF f = "reload" THEN [st EXCEPT !.fail = "reload"]
    ELSE [st EXCEPT !.bridge = st.net, !.log = Append(@, "reload")]

\* network.SetDHCPConfiguredWithReader
StepFlag(st, f) ==
    IF st.fail # "none" THEN st
    ELSE IF f = "flag" THEN [st EXCEPT !.fail = "flag"]
    ELSE [st EXCEPT !.om = "1", !.log = Append(@, "flag")]

\* The unconfigured branch with the flag written before the network reload
UnconfiguredBranchFlagFirst(n, records, f) ==
    LET written == StepDHCPWrite(
                     StepDHCPStart(
                       StepNetWrite(
                         StepSelectIP(StepMesh(TickStart(n), f), records, n \in gwServer),
                         f),
                       records),
                     f)
        flagged == StepFlag(written, "none")
    IN  StepReload(flagged, f)

\* StartReceive, DHCP not configured: lines 167-237
UnconfiguredBranch(n, records, f) ==
    StepFlag(
      StepReload(
        StepDHCPWrite(
          StepDHCPStart(
            StepNetWrite(
              StepSelectIP(StepMesh(TickStart(n), f), records, n \in gwServer),
              f),
            records),
          f),
        f),
      f)

\* createAddressReservationResponse: the DHCP section is read through a new
\* reader (Get on the default tree), the address from the bridge interface.
createAddressReservationResponse(n, st) ==
    LET dhcp == IF st.dcache = <<>> THEN st.dhcp ELSE st.dcache
    IN  [present |-> TRUE, mac |-> n, ip |-> st.bridge,
         start |-> dhcp[1], limit |-> dhcp[2], req |-> FALSE]

\* StartReceive, DHCP configured: lines 132-165; every record that does not
\* decode is logged ("Error unmarshaling address reservation data")
ConfiguredBranch(n, records, f) ==
    LET st        == [TickStart(n) EXCEPT
                        !.decodeErrs = Cardinality({r \in records : ~Decodable(r)})]
        requested == \E r \in records : Decodable(r) /\ r.req /\ r.mac # n
        loaded    == [st EXCEPT !.dcache = IF @ = <<>> THEN st.dhcp ELSE @]
    IN  IF ~requested THEN st
        ELSE IF f = "respond"
                \/ st.bridge \in {NoIP, V6Addr, LoopbackAddr, UnspecifiedAddr}
             THEN [loaded EXCEPT !.fail = "respond"]
             ELSE [loaded EXCEPT !.rec = createAddressReservationResponse(n, loaded),
                                 !.log = Append(@, "respond")]

\* One receive tick of node n: the new per-node values and the observation.
TickOutcome(n, f) ==
    LET records == Request
        c       == IsDHCPConfiguredWithReader(OMGet(n))
        st0     == TickStart(n)
    IN  IF f = "request" THEN [st |-> [st0 EXCEPT !.fail = "request"], branch |-> "error"]
        ELSE IF c.err THEN [st |-> [st0 EXCEPT !.fail = "isconf"], branch |-> "error"]
        ELSE IF c.configured
             THEN [st |-> ConfiguredBranch(n, records, f), branch |-> "configured"]
             ELSE [st |-> UnconfiguredBranch(n, records, f), branch |-> "unconfigured"]

\* The failure f can be injected in the tick node n is about to run.
Applicable(n, f) ==
    \/ f = "none"
    \/ /\ faults < MaxFaults
       /\ IF IsDHCPConfiguredWithReader(OMGet(n)).configured
          THEN f \in ConfFails ELSE f \in UnconfFails

\* AddressReservationWorker.StartReceive, case <-ticker.C
RecvTick(n, f) ==
    /\ n \in live /\ ~crashed[n]
    /\ Applicable(n, f)
    /\ LET out == TickOutcome(n, f)
       IN  /\ netDisk'   = [netDisk   EXCEPT ![n] = out.st.net]
           /\ dhcpDisk'  = [dhcpDisk  EXCEPT ![n] = out.st.dhcp]
           /\ dhcpCache' = [dhcpCache EXCEPT ![n] = out.st.dcache]
           /\ bridgeIP'  = [bridgeIP  EXCEPT ![n] = out.st.bridge]
           /\ omDisk'    = [omDisk    EXCEPT ![n] = out.st.om]
           /\ alfred'    = [alfred    EXCEPT ![n] = out.st.rec]
           /\ omCache'   = [omCache   EXCEPT ![n] = IF f = "request" THEN @ ELSE OMGet(n)]
           /\ tick'      = [tick      EXCEPT ![n] =
                               [branch |-> out.branch, log |-> out.st.log,
                                fail |-> out.st.fail, decodeErrs |-> out.st.decodeErrs]]
    /\ faults' = IF f = "none" THEN faults ELSE faults + 1
    /\ UNCHANGED <<live, gwServer, sendPc, crashed, restarts>>
    /\ UNCHANGED <<varsB, varsC, varsD, varsE, varsF, varsG, varsH, varsI>>

\* AddressReservationWorker.StartSend, case <-ticker.C up to the branch on
\* configured (lines 62-74)
SendCheck(n) ==
    /\ n \in live /\ ~crashed[n]
    /\ sendPc[n] = "idle"
    /\ LET c == IsDHCPConfiguredWithReader(OMGet(n))
       IN  sendPc' = [sendPc EXCEPT ![n] =
                         IF ~c.err /\ ~c.configured THEN "publish" ELSE "idle"]
    /\ omCache' = [omCache EXCEPT ![n] = OMGet(n)]
    /\ UNCHANGED <<live, gwServer, omDisk, netDisk, dhcpDisk, dhcpCache, bridgeIP,
                   alfred, tick, crashed, faults, restarts>>
    /\ UNCHANGED <<varsB, varsC, varsD, varsE, varsF, varsG, varsH, varsI>>

\* StartSend, lines 75-98: read the interface, publish the request.  ok is
\* the result of Client.Set.  iface.IP[0] panics on an empty address list.
SendPublish(n, ok) ==
    /\ n \in live /\ ~crashed[n]
    /\ sendPc[n] = "publish"
    /\ ok \/ faults < MaxFaults
    /\ sendPc' = [sendPc EXCEPT ![n] = "idle"]
    /\ IF bridgeIP[n] = NoIP
       THEN /\ crashed' = [crashed EXCEPT ![n] = TRUE]
            /\ UNCHANGED <<alfred, faults>>
       ELSE /\ alfred' = [alfred EXCEPT ![n] =
                             IF ok THEN RequestRec(n, bridgeIP[n]) ELSE @]
            /\ faults' = IF ok THEN faults ELSE faults + 1
            /\ UNCHANGED crashed
    /\ UNCHANGED <<live, gwServer, omDisk, omCache, netDisk, dhcpDisk, dhcpCache,
                   bridgeIP, tick, restarts>>
    /\ UNCHANGED <<varsB, varsC, varsD, varsE, varsF, varsG, varsH, varsI>>

\* The daemon of node n is started again: a new process has empty uci trees.
Restart(n) ==
    /\ n \in live
    /\ restarts < MaxRestarts
    /\ restarts' = restarts + 1
    /\ omCache'   = [omCache   EXCEPT ![n] = "unloaded"]
    /\ dhcpCache' = [dhcpCache EXCEPT ![n] = <<>>]
    /\ sendPc'    = [sendPc    EXCEPT ![n] = "idle"]
    /\ crashed'   = [crashed   EXCEPT ![n] = FALSE]
    /\ UNCHANGED <<live, gwServer, omDisk, netDisk, dhcpDisk, bridgeIP, alfred,
                   tick, faults>>
    /\ UNCHANGED <<varsB, varsC, varsD, varsE, varsF, varsG, varsH, varsI>>


----------------------------------------------------------------------------
(* Initial states and next-state relation of part A                        *)

\* Addresses a bridge may carry before the reservation has configured it.
InitBridgeIPs == {IP(1, 9), IP(254, 1)}

\* Parts B, C, D, E, F, G, H and I at rest
IdleI ==
    /\ loopbackAudio = FALSE /\ localIP = "" /\ playbackSrc = <<>>
IdleH ==
    /\ now = 0 /\ tickerC = 0 /\ running = 0 /\ burst = 0 /\ missed = 0
    /\ meshAt = -1 /\ cliCalls = 0
IdleG ==
    /\ flagCalls = <<>> /\ flagAnswer = "none"
NoCall == [ipCalled |-> FALSE, ip |-> -1, startCalled |-> FALSE, start |-> 0]
IdleF ==
    /\ selIn = [fam |-> "none", sub |-> {}, n |-> 0, gw |-> FALSE, limit |-> 0]
    /\ selOut = NoCall
NoRes == [codec |-> "none", pa |-> "none", playback |-> "none", bcast |-> "none",
          sendSock |-> "none", recvSock |-> "none", hid |-> "none"]
IdleE ==
    /\ pttOn = FALSE /\ pttMain = "returned" /\ pttHandler = "none"
    /\ pttSigs = 0 /\ pttC = 0 /\ res = NoRes
NoRun == [value |-> -1, from |-> FALSE, starts |-> 0, stops |-> 0, tones |-> 0,
          errs |-> 0]
IdleD ==
    /\ broadcasting = FALSE /\ micActive = FALSE /\ playbackBuffer = <<>>
    /\ pttPc = "read" /\ run = NoRun /\ opLog = <<>>
    /\ hidCount = 0 /\ pttFaults = 0 /\ recvLog = "none"
IdleB ==
    /\ enabled = {} /\ sup = "idle" /\ sigChan = 0 /\ delivered = 0
    /\ loops = <<>>
IdleC ==
    /\ gwMode = "off" /\ gwRecords = <<>> /\ batGwys = <<>>
    /\ route = [present |-> FALSE, gw |-> NoIP, dev |-> "", metric |-> 0]
    /\ gwTick = [branch |-> "none", best |-> "", replaced |-> 0, fail |-> "none"]
    /\ gwPanic = FALSE /\ gwFaults = 0 /\ envChanges = 0
    /\ gwStore = [present |-> FALSE, mac |-> "", ipaddr |-> "", hostname |-> ""]

\* What every initial state of part A shares
InitCommonA ==
    /\ omCache   = [n \in Nodes |-> "unloaded"]
    /\ dhcpCache = [n \in Nodes |-> <<>>]
    /\ sendPc    = [n \in Nodes |-> "idle"]
    /\ tick      = [n \in Nodes |-> NoTick]
    /\ crashed   = [n \in Nodes |-> FALSE]
    /\ faults = 0 /\ restarts = 0
    /\ IdleB /\ IdleC /\ IdleD /\ IdleE /\ IdleF /\ IdleG /\ IdleH /\ IdleI

\* Three nodes, none configured, empty Alfred store
InitCold ==
    /\ live = Nodes
    /\ gwServer \in {{}, {1}}
    /\ omDisk = [n \in Nodes |-> "0"]
    /\ \E b \in InitBridgeIPs : bridgeIP = [n \in Nodes |-> b]
    /\ netDisk = bridgeIP
    /\ dhcpDisk = [n \in Nodes |-> <<100, DefaultDHCPAddressLimit>>]
    /\ alfred = [n \in Nodes |-> NoRec]
    /\ InitCommonA

\* The reservation node 1 holds when it is configured at start
ConfiguredRec ==
    [present |-> TRUE, mac |-> 1, ip |-> IP(1, 1),
     start |-> 100, limit |-> DefaultDHCPAddressLimit, req |-> FALSE]

\* Node 1 is configured (10.41.1.1, window [100, 249]) and has or has not
\* published its reservation; node 2 joins unconfigured; node 3 is absent.
InitJoin ==
    /\ live = {1, 2}
    /\ gwServer = {}
    /\ omDisk = [n \in Nodes |-> IF n = 1 THEN "1" ELSE "0"]
    /\ \E b \in InitBridgeIPs :
          bridgeIP = [n \in Nodes |-> IF n = 1 THEN IP(1, 1) ELSE b]
    /\ netDisk = bridgeIP
    /\ dhcpDisk = [n \in Nodes |-> <<100, DefaultDHCPAddressLimit>>]
    /\ \E r \in {NoRec, ConfiguredRec} :
          alfred = [n \in Nodes |-> IF n = 1 THEN r ELSE NoRec]
    /\ InitCommonA

\* Node 1 is configured and has published its reservation, the store holds
\* an undecodable payload of an origin that is not running here, node 2
\* joins unconfigured.
InitMalformed ==
    /\ live = {1, 2}
    /\ gwServer = {}
    /\ omDisk = [n \in Nodes |-> IF n = 1 THEN "1" ELSE "0"]
    /\ \E b \in InitBridgeIPs :
          bridgeIP = [n \in Nodes |-> IF n = 1 THEN IP(1, 1) ELSE b]
    /\ netDisk = bridgeIP
    /\ dhcpDisk = [n \in Nodes |-> <<100, DefaultDHCPAddressLimit>>]
    /\ alfred = [n \in Nodes |-> IF n = 1 THEN ConfiguredRec
                                  ELSE IF n = 3 THEN Garbage ELSE NoRec]
    /\ InitCommonA

NextA ==
    \/ \E n \in Nodes : \E f \in FailPoints \cup {"none"} : RecvTick(n, f)
    \/ \E n \in Nodes : SendCheck(n)
    \/ \E n \in Nodes : \E ok \in BOOLEAN : SendPublish(n, ok)
    \/ \E n \in Nodes : Restart(n)

\* Send and receive ticks only, no platform failure and no restart
NextCold ==
    \/ \E n \in Nodes : RecvTick(n, "none")
    \/ \E n \in Nodes : SendCheck(n)
    \/ \E n \in Nodes : SendPublish(n, TRUE)

SpecCold == InitCold /\ [][NextCold]_vars
SpecJoin == InitJoin /\ [][NextA]_vars
SpecMalformed == InitMalformed /\ [][NextA]_vars

\* Records the other nodes may hold in the Alfred store while node 1 ticks
PeerRecs(m) ==
    {NoRec, RequestRec(m, IP(1, 9)),
     [present |-> TRUE, mac |-> m, ip |-> IP(1, m),
      start |-> 100 + DefaultDHCPAddressLimit * (m - 2),
      limit |-> DefaultDHCPAddressLimit, req |-> FALSE]}

\* Node 1 alone runs its receive loop; the records of the other origins do
\* not change.
InitTwice ==
    /\ live = {1}
    /\ gwServer \in {{}, {1}}
    /\ \E v \in {"0", "1"} : omDisk = [n \in Nodes |-> IF n = 1 THEN v ELSE "0"]
    /\ \E b \in InitBridgeIPs : bridgeIP = [n \in Nodes |-> b]
    /\ netDisk = bridgeIP
    /\ dhcpDisk = [n \in Nodes |-> <<100, DefaultDHCPAddressLimit>>]
    /\ \E r2 \in PeerRecs(2) : \E r3 \in PeerRecs(3) :
          alfred = [n \in Nodes |-> IF n = 2 THEN r2 ELSE IF n = 3 THEN r3 ELSE NoRec]
    /\ InitCommonA

NextTwice == \E f \in FailPoints \cup {"none"} : RecvTick(1, f)

SpecTwice == InitTwice /\ [][NextTwice]_vars

\* Values of dhcpconfigured other than "0", "1" and unset: a number and a
\* word
BitRotValues == {"2", "invalid"}

\* Node 1 alone runs the worker, its dhcpconfigured option holds neither 0
\* nor 1
InitBitRot ==
    /\ live = {1}
    /\ gwServer \in {{}, {1}}
    /\ \E v \in BitRotValues : omDisk = [n \in Nodes |-> IF n = 1 THEN v ELSE "0"]
    /\ \E b \in InitBridgeIPs : bridgeIP = [n \in Nodes |-> b]
    /\ netDisk = bridgeIP
    /\ dhcpDisk = [n \in Nodes |-> <<100, DefaultDHCPAddressLimit>>]
    /\ \E r2 \in PeerRecs(2) : \E r3 \in PeerRecs(3) :
          alfred = [n \in Nodes |-> IF n = 2 THEN r2 ELSE IF n = 3 THEN r3 ELSE NoRec]
    /\ InitCommonA

SpecBitRot == InitBitRot /\ [][NextA]_vars


----------------------------------------------------------------------------
(* Part B: supervisor (openmanet.Start), ManagementConfig.Start and the    *)
(* os.Signal channel c that the supervisor and every worker loop receive   *)
(* from.  ptt.Start() is called before the manager is built: the manager   *)
(* starts when PTTConfig.Start has returned (at once when PTT is disabled). *)

Pairs   == {"ar", "node", "gw"}
LoopIds == {<<p, d>> : p \in Pairs, d \in {"send", "recv"}}

\* c = make(chan os.Signal, 1)
SigChanCap == 1

ProcessGone == sup \in {"exited", "killed", "fatal"}

\* ManagementConfig.Start: one goroutine per loop of every enabled pair
MgmtStart ==
    /\ sup = "boot"
    /\ pttMain = "returned"
    /\ sup' = "started"
    /\ loops' = [l \in LoopIds |-> IF l[1] \in enabled THEN "waiting" ELSE "off"]
    /\ UNCHANGED <<enabled, sigChan, delivered>>
    /\ UNCHANGED <<varsA, varsC, varsD, varsE, varsF, varsG, varsH, varsI>>

\* ClearBatHosts, then signal.Notify(c, os.Interrupt, syscall.SIGTERM)
Notify ==
    /\ sup = "started"
    /\ sup' = "waiting"
    /\ UNCHANGED <<enabled, loops, sigChan, delivered>>
    /\ UNCHANGED <<varsA, varsC, varsD, varsE, varsF, varsG, varsH, varsI>>

\* The channels signal.Notify has registered so far: c of openmanet.Start,
\* sigs and c of PTTConfig.Start
NotifiedSup  == sup = "waiting"
NotifiedSigs == pttHandler # "none"
NotifiedPttC == pttMain \in {"waiting", "d1", "d2", "d3", "returned"} /\ pttOn

\* the runtime's non-blocking send on a registered channel of capacity 1
Deliver(registered, n) == IF registered /\ n < SigChanCap THEN n + 1 ELSE n

\* SIGINT or SIGTERM reaches the process.  Before any Notify the default
\* disposition ends the process; after it the runtime does a non-blocking
\* send on every registered channel.
Signal ==
    /\ ~ProcessGone
    /\ delivered < MaxSignals
    /\ delivered' = delivered + 1
    /\ IF NotifiedSup \/ NotifiedSigs \/ NotifiedPttC
       THEN /\ sigChan' = Deliver(NotifiedSup, sigChan)
            /\ pttSigs' = Deliver(NotifiedSigs, pttSigs)
            /\ pttC'    = Deliver(NotifiedPttC, pttC)
            /\ UNCHANGED sup
       ELSE /\ sup' = "killed"
            /\ UNCHANGED <<sigChan, pttSigs, pttC>>
    /\ UNCHANGED <<enabled, loops>>
    /\ UNCHANGED <<pttOn, pttMain, pttHandler, res>>
    /\ UNCHANGED <<varsA, varsC, varsD, varsF, varsG, varsH, varsI>>

\* select { case <-ticker.C: ... } of a worker loop: the tick starts
LoopTick(l) ==
    /\ ~ProcessGone
    /\ loops[l] = "waiting"
    /\ loops' = [loops EXCEPT ![l] = "ticking"]
    /\ UNCHANGED <<enabled, sup, sigChan, delivered>>
    /\ UNCHANGED <<varsA, varsC, varsD, varsE, varsF, varsG, varsH, varsI>>

\* the tick body ends (normally or by continue), back to the select
LoopTickDone(l) ==
    /\ ~ProcessGone
    /\ loops[l] = "ticking"
    /\ loops' = [loops EXCEPT ![l] = "waiting"]
    /\ UNCHANGED <<enabled, sup, sigChan, delivered>>
    /\ UNCHANGED <<varsA, varsC, varsD, varsE, varsF, varsG, varsH, varsI>>

\* select { case <-ShutdownChan: return } of a worker loop
LoopShutdown(l) ==
    /\ ~ProcessGone
    /\ loops[l] = "waiting"
    /\ sigChan > 0
    /\ sigChan' = sigChan - 1
    /\ loops' = [loops EXCEPT ![l] = "returned"]
    /\ UNCHANGED <<enabled, sup, delivered>>
    /\ UNCHANGED <<varsA, varsC, varsD, varsE, varsF, varsG, varsH, varsI>>

\* <-c in openmanet.Start, then Start returns and the process ends
SupExit ==
    /\ sup = "waiting"
    /\ sigChan > 0
    /\ sigChan' = sigChan - 1
    /\ sup' = "exited"
    /\ UNCHANGED <<enabled, loops, delivered>>
    /\ UNCHANGED <<varsA, varsC, varsD, varsE, varsF, varsG, varsH, varsI>>

\* Part A at rest
IdleA ==
    /\ live = {} /\ gwServer = {}
    /\ omDisk = [n \in Nodes |-> "0"]
    /\ \E b \in {IP(254, 1)} : bridgeIP = [n \in Nodes |-> b]
    /\ netDisk = bridgeIP
    /\ dhcpDisk = [n \in Nodes |-> <<100, DefaultDHCPAddressLimit>>]
    /\ alfred = [n \in Nodes |-> NoRec]
    /\ omCache   = [n \in Nodes |-> "unloaded"]
    /\ dhcpCache = [n \in Nodes |-> <<>>]
    /\ sendPc    = [n \in Nodes |-> "idle"]
    /\ tick      = [n \in Nodes |-> NoTick]
    /\ crashed   = [n \in Nodes |-> FALSE]
    /\ faults = 0 /\ restarts = 0

\* The data-type switches of the configuration select the worker pairs.
InitB ==
    /\ enabled \in SUBSET Pairs
    /\ sup = "boot"
    /\ loops = [l \in LoopIds |-> "off"]
    /\ sigChan = 0 /\ delivered = 0
    /\ IdleA /\ IdleC /\ IdleD /\ IdleE /\ IdleF /\ IdleG /\ IdleH /\ IdleI

NextB ==
    \/ MgmtStart
    \/ Notify
    \/ Signal
    \/ \E l \in LoopIds : LoopTick(l)
    \/ \E l \in LoopIds : LoopTickDone(l)
    \/ \E l \in LoopIds : LoopShutdown(l)
    \/ SupExit

\* The Go scheduler runs every goroutine that can run, and a select with a
\* ready shutdown case takes it sooner or later.
FairB ==
    /\ WF_vars(MgmtStart) /\ WF_vars(Notify)
    /\ \A l \in LoopIds : WF_vars(LoopTick(l)) /\ WF_vars(LoopTickDone(l))
    /\ \A l \in LoopIds : SF_vars(LoopShutdown(l))
    /\ SF_vars(SupExit)

SpecShutdown == InitB /\ [][NextB]_vars /\ FairB


----------------------------------------------------------------------------
(* Part C: the receive tick of the gateway worker and the IPv4 default     *)
(* route of the main table.                                                *)

\* Mesh-interface MACs of two gateway nodes
MacA == "02:00:00:00:00:01"
MacB == "02:00:00:00:00:02"

\* net.ParseIP on the ipaddr strings that occur; NoIP stands for nil
ParseIP(str) ==
    CASE str = "10.41.0.5"   -> IP(0, 5)
      [] str = "10.41.0.6"   -> IP(0, 6)
      [] str = "192.168.1.1" -> 256 * 256 + 1
      [] OTHER -> NoIP

\* proto.Gateway as delivered by Alfred; ok = FALSE: UnmarshalVT fails
GwRec(mac, ipaddr) == [ok |-> TRUE, mac |-> mac, ipaddr |-> ipaddr]
BadRec == [ok |-> FALSE, mac |-> "", ipaddr |-> ""]

\* batmanadv.Gateway: the fields the worker reads
BatGw(orig, best) == [orig |-> orig, best |-> best]

NoRoute == [present |-> FALSE, gw |-> NoIP, dev |-> "", metric |-> 0]
Route(gw, dev, metric) == [present |-> TRUE, gw |-> gw, dev |-> dev, metric |-> metric]

NoGwTick == [branch |-> "none", best |-> "", replaced |-> 0, fail |-> "none"]

\* Gateways.GetBest: index of the first entry flagged best, 0 for nil
GetBest(gws) ==
    IF \E i \in 1..Len(gws) : gws[i].best
    THEN CHOOSE i \in 1..Len(gws) : gws[i].best /\ \A j \in 1..(i - 1) : ~gws[j].best
    ELSE 0

\* network.GetDefaultRoute: an error when the kernel query fails or the
\* table holds no default route
GetDefaultRoute(rt, f) ==
    IF f = "getroute" \/ ~rt.present THEN [err |-> TRUE, route |-> NoRoute]
    ELSE [err |-> FALSE, route |-> rt]

\* ReplaceDefaultRoute that does not keep the metric of the current route
ReplaceDefaultRouteOtherMetric(rt, newGateway, f) ==
    LET cur == GetDefaultRoute(rt, f)
    IN  IF cur.err \/ f = "replace" THEN [err |-> TRUE, route |-> rt]
        ELSE [err |-> FALSE,
              route |-> Route(newGateway, cur.route.dev,
                              IF cur.route.metric = 0 THEN 10 ELSE 0)]

\* network.ReplaceDefaultRoute: interface and metric of the current default
\* route are kept, the gateway is replaced.  (The worker also passes its
\* interface name; the function in route.go takes the gateway only.)
ReplaceDefaultRoute(rt, newGateway, f) ==
    LET cur == GetDefaultRoute(rt, f)
    IN  IF cur.err \/ f = "replace" THEN [err |-> TRUE, route |-> rt]
        ELSE [err |-> FALSE,
              route |-> Route(newGateway, cur.route.dev, cur.route.metric)]

\* Loop state of a receive tick: the route, the number of replacements made,
\* a nil dereference
LoopStart(rt) == [route |-> rt, replaced |-> 0, panic |-> FALSE]

\* Body of the record loop once gatewayData.Mac equals batGw.OrigAddress in
\* the single-gateway branch (lines 159-182)
SingleMatch(rec, st, f) ==
    LET ipString == ParseIP(rec.ipaddr)
        cur      == GetDefaultRoute(st.route, f)
    IN  IF cur.err THEN st
        ELSE IF cur.route.gw = ipString THEN st
        ELSE IF ipString = NoIP THEN st
        ELSE LET r == ReplaceDefaultRoute(st.route, ipString, f)
             IN  [st EXCEPT !.route = r.route,
                            !.replaced = IF r.err THEN @ ELSE @ + 1]

\* The single-gateway record loop without the comparison of the MACs
RECURSIVE SingleLoopAnyRecord(_, _, _, _, _, _)
SingleLoopAnyRecord(i, records, gws, best, st, f) ==
    IF i > Len(records) THEN st
    ELSE IF ~records[i].ok THEN SingleLoopAnyRecord(i + 1, records, gws, best, st, f)
    ELSE IF best = 0 THEN [st EXCEPT !.panic = TRUE]
    ELSE SingleLoopAnyRecord(i + 1, records, gws, best, SingleMatch(records[i], st, f), f)

\* for _, rec := range record of the single-gateway branch (lines 151-183);
\* best = 0 is the nil pointer GetBest returned
RECURSIVE SingleLoop(_, _, _, _, _, _)
SingleLoop(i, records, gws, best, st, f) ==
    IF i > Len(records) THEN st
    ELSE IF ~records[i].ok THEN SingleLoop(i + 1, records, gws, best, st, f)
    ELSE IF best = 0 THEN [st EXCEPT !.panic = TRUE]
    ELSE IF records[i].mac = gws[best].orig
         THEN SingleLoop(i + 1, records, gws, best, SingleMatch(records[i], st, f), f)
         ELSE SingleLoop(i + 1, records, gws, best, st, f)

\* Body of the record loop on a match in the multi-gateway branch
\* (lines 204-216); the loop ends after it
MultiMatch(rec, st, f) ==
    LET ipString == ParseIP(rec.ipaddr)
    IN  IF ipString = NoIP THEN st
        ELSE LET r == ReplaceDefaultRoute(st.route, ipString, f)
             IN  [st EXCEPT !.route = r.route,
                            !.replaced = IF r.err THEN @ ELSE @ + 1]

\* for _, rec := range record of the multi-gateway branch (lines 194-217)
RECURSIVE MultiLoop(_, _, _, _, _, _)
MultiLoop(i, records, gws, best, st, f) ==
    IF i > Len(records) THEN st
    ELSE IF ~records[i].ok THEN MultiLoop(i + 1, records, gws, best, st, f)
    ELSE IF best = 0 THEN [st EXCEPT !.panic = TRUE]
    ELSE IF records[i].mac = gws[best].orig THEN MultiMatch(records[i], st, f)
    ELSE MultiLoop(i + 1, records, gws, best, st, f)

\* MeshConfig.IsGatewayMode
IsGatewayMode(mode) == mode = "server"

GwFailPoints == {"mesh", "request", "gwj", "getroute", "replace"}

\* One receive tick of the gateway worker: the loop state it ends with and
\* the branch it took
GwTickOutcome(f) ==
    LET st0  == LoopStart(route)
        best == GetBest(batGwys)
    IN  IF f = "mesh" THEN [st |-> st0, branch |-> "error"]
        ELSE IF IsGatewayMode(gwMode) THEN [st |-> st0, branch |-> "server"]
        ELSE IF f = "request" \/ f = "gwj" THEN [st |-> st0, branch |-> "error"]
        ELSE IF Len(batGwys) = 0 THEN [st |-> st0, branch |-> "nogw"]
        ELSE IF Len(batGwys) = 1
             THEN [st |-> SingleLoop(1, gwRecords, batGwys, best, st0, f), branch |-> "single"]
             ELSE [st |-> MultiLoop(1, gwRecords, batGwys, best, st0, f), branch |-> "multi"]

\* GatewayWorker.StartReceive, case <-ticker.C
GwRecvTick(f) ==
    /\ ~gwPanic
    /\ f = "none" \/ gwFaults < MaxFaults
    /\ LET out  == GwTickOutcome(f)
           best == GetBest(batGwys)
       IN  /\ route'   = out.st.route
           /\ gwPanic' = out.st.panic
           /\ gwTick'  = [branch   |-> out.branch,
                          best     |-> IF best = 0 THEN "" ELSE batGwys[best].orig,
                          replaced |-> out.st.replaced,
                          fail     |-> f]
    /\ gwFaults' = IF f = "none" THEN gwFaults ELSE gwFaults + 1
    /\ UNCHANGED <<gwMode, gwRecords, batGwys, envChanges, gwStore>>
    /\ UNCHANGED <<varsA, varsB, varsD, varsE, varsF, varsG, varsH, varsI>>

\* Gateway lists "batctl gwj" may print
BatLists ==
    {<<>>,
     <<BatGw(MacA, TRUE)>>, <<BatGw(MacA, FALSE)>>, <<BatGw(MacB, TRUE)>>,
     <<BatGw(MacA, TRUE), BatGw(MacB, FALSE)>>,
     <<BatGw(MacA, FALSE), BatGw(MacB, TRUE)>>,
     <<BatGw(MacA, FALSE), BatGw(MacB, FALSE)>>}

\* Gateway record sets Alfred may return
RecLists ==
    {<<>>,
     <<GwRec(MacA, "10.41.0.5")>>,
     <<GwRec(MacB, "10.41.0.6")>>,
     <<GwRec(MacA, "10.41.0.5"), GwRec(MacB, "10.41.0.6")>>,
     <<BadRec, GwRec(MacA, "10.41.0.5")>>,
     <<GwRec(MacA, "10.41.0.256")>>,
     <<GwRec(MacA, "10.41.0.5"), GwRec(MacA, "10.41.0.6")>>}

\* Default routes the main table may hold apart from the worker's doing
Routes ==
    {NoRoute, Route(ParseIP("10.41.0.5"), "br-ahwlan", 0),
     Route(ParseIP("192.168.1.1"), "eth0", 10)}

\* batman-adv gains, loses or re-elects gateways
BatChange ==
    /\ envChanges < MaxEnvChanges
    /\ envChanges' = envChanges + 1
    /\ \E g \in BatLists \ {batGwys} : batGwys' = g
    /\ UNCHANGED <<gwMode, gwRecords, route, gwTick, gwPanic, gwFaults, gwStore>>
    /\ UNCHANGED <<varsA, varsB, varsD, varsE, varsF, varsG, varsH, varsI>>

\* the set of Gateway records in the Alfred store changes
GossipChange ==
    /\ envChanges < MaxEnvChanges
    /\ envChanges' = envChanges + 1
    /\ \E r \in RecLists \ {gwRecords} : gwRecords' = r
    /\ UNCHANGED <<gwMode, batGwys, route, gwTick, gwPanic, gwFaults, gwStore>>
    /\ UNCHANGED <<varsA, varsB, varsD, varsE, varsF, varsG, varsH, varsI>>

\* the default route is changed from outside the worker (network reload,
\* uplink DHCP client)
RouteChange ==
    /\ envChanges < MaxEnvChanges
    /\ envChanges' = envChanges + 1
    /\ \E r \in Routes \ {route} : route' = r
    /\ UNCHANGED <<gwMode, gwRecords, batGwys, gwTick, gwPanic, gwFaults, gwStore>>
    /\ UNCHANGED <<varsA, varsB, varsD, varsE, varsF, varsG, varsH, varsI>>

InitC ==
    /\ gwMode \in {"server", "client", "off"}
    /\ gwRecords \in RecLists
    /\ batGwys \in BatLists
    /\ route \in Routes
    /\ gwTick = NoGwTick
    /\ gwPanic = FALSE /\ gwFaults = 0 /\ envChanges = 0
    /\ gwStore = [present |-> FALSE, mac |-> "", ipaddr |-> "", hostname |-> ""]
    /\ IdleA /\ IdleB /\ IdleD /\ IdleE /\ IdleF /\ IdleG /\ IdleH /\ IdleI

NextC ==
    \/ \E f \in GwFailPoints \cup {"none"} : GwRecvTick(f)
    \/ BatChange
    \/ GossipChange
    \/ RouteChange

SpecGateway == InitC /\ [][NextC]_vars

\* gw.Config.IFace, the bridge interface of the node
OwnIFace == "br-ahwlan"

\* The receive loop alone: gossip, gateway list and routes change only by
\* the worker's own doing
NextGwTicks == \E f \in GwFailPoints \cup {"none"} : GwRecvTick(f)

SpecGwTicks == InitC /\ [][NextGwTicks]_vars

\* net.IP.String() of the address 10.41.t.h
IPString(ip) ==
    IF ip = LoopbackAddr THEN "127.0.0.1"
    ELSE IF ip = UnspecifiedAddr THEN "0.0.0.0"
    ELSE "10.41." \o ToString(ip \div 256) \o "." \o ToString(ip % 256)

NoGwRec == [present |-> FALSE, mac |-> "", ipaddr |-> "", hostname |-> ""]

GwSendFails == {"mesh", "hostname", "set"}

\* GatewayWorker.StartSend, case <-ticker.C.  The node is node 1 of part A:
\* its bridge interface is bridgeIP[1], its mesh MAC is MacA.
GwSendTick(f) ==
    /\ ~gwPanic /\ ~crashed[1]
    /\ f = "none" \/ gwFaults < MaxFaults
    /\ gwFaults' = IF f = "none" THEN gwFaults ELSE gwFaults + 1
    /\ gwStore' =
          IF f = "mesh" \/ ~IsGatewayMode(gwMode) THEN gwStore
          ELSE IF bridgeIP[1] = NoIP THEN gwStore      \* len(iface.IP) == 0
          ELSE IF bridgeIP[1] = V6Addr THEN gwStore    \* iface.IP[0].IP.To4() == nil
          \* 127.0.0.1 and 0.0.0.0 pass both tests
          ELSE IF f = "set" THEN gwStore
          ELSE [present |-> TRUE, mac |-> MacA, ipaddr |-> IPString(bridgeIP[1]),
                hostname |-> IF f = "hostname" THEN "unknown" ELSE "gw1"]
    /\ UNCHANGED <<gwMode, gwRecords, batGwys, route, gwTick, gwPanic, envChanges>>
    /\ UNCHANGED <<varsA, varsB, varsD, varsE, varsF, varsG, varsH, varsI>>

\* What the bridge interface may carry: an IPv4 address first, no address,
\* or an IPv6 address first
IfaceStates == {IP(0, 5), IP(1, 9), NoIP, V6Addr}

\* Node 1 runs the reservation worker and the gateway send loop; its bridge
\* may be without an IPv4 address.  Node 2 may have left a request in Alfred.
InitIface ==
    /\ live = {1}
    /\ gwServer \in {{}, {1}}
    /\ gwMode = IF 1 \in gwServer THEN "server" ELSE "client"
    /\ \E v \in {"0", "1"} : omDisk = [n \in Nodes |-> IF n = 1 THEN v ELSE "0"]
    /\ \E b \in IfaceStates : bridgeIP = [n \in Nodes |-> IF n = 1 THEN b ELSE IP(1, 9)]
    /\ netDisk = [n \in Nodes |-> IF bridgeIP[n] >= 0 THEN bridgeIP[n] ELSE NoIP]
    /\ dhcpDisk = [n \in Nodes |-> <<100, DefaultDHCPAddressLimit>>]
    /\ \E r \in {NoRec, RequestRec(2, IP(1, 9))} :
          alfred = [n \in Nodes |-> IF n = 2 THEN r ELSE NoRec]
    /\ omCache   = [n \in Nodes |-> "unloaded"]
    /\ dhcpCache = [n \in Nodes |-> <<>>]
    /\ sendPc    = [n \in Nodes |-> "idle"]
    /\ tick      = [n \in Nodes |-> NoTick]
    /\ crashed   = [n \in Nodes |-> FALSE]
    /\ faults = 0 /\ restarts = 0
    /\ gwRecords = <<>> /\ batGwys = <<>> /\ route = NoRoute /\ gwTick = NoGwTick
    /\ gwPanic = FALSE /\ gwFaults = 0 /\ envChanges = 0
    /\ gwStore = NoGwRec
    /\ IdleB /\ IdleD /\ IdleE /\ IdleF /\ IdleG /\ IdleH /\ IdleI

NextIface ==
    \/ \E n \in Nodes : \E f \in FailPoints \cup {"none"} : RecvTick(n, f)
    \/ \E n \in Nodes : SendCheck(n)
    \/ \E n \in Nodes : \E ok \in BOOLEAN : SendPublish(n, ok)
    \/ \E n \in Nodes : Restart(n)
    \/ \E f \in GwSendFails \cup {"none"} : GwSendTick(f)

SpecIface == InitIface /\ [][NextIface]_vars

\* The first address the bridge of a gateway may carry, 127.0.0.1 and
\* 0.0.0.0 included
GwIfaceStates == IfaceStates \cup {LoopbackAddr, UnspecifiedAddr}

\* The administrator (or a network reload) gives the bridge another first
\* address
IfaceChange(b) ==
    /\ envChanges < MaxEnvChanges
    /\ b # bridgeIP[1]
    /\ envChanges' = envChanges + 1
    /\ bridgeIP' = [bridgeIP EXCEPT ![1] = b]
    /\ UNCHANGED <<live, gwServer, omDisk, omCache, netDisk, dhcpDisk, dhcpCache,
                   alfred, sendPc, tick, crashed, faults, restarts>>
    /\ UNCHANGED <<gwMode, gwRecords, batGwys, route, gwTick, gwPanic, gwFaults,
                   gwStore>>
    /\ UNCHANGED <<varsB, varsD, varsE, varsF, varsG, varsH, varsI>>

\* The gateway send loop of node 1 alone, on a bridge whose first address
\* changes
InitGwSend ==
    /\ live = {1}
    /\ gwServer \in {{}, {1}}
    /\ gwMode \in IF 1 \in gwServer THEN {"server"} ELSE {"client", "off"}
    /\ omDisk = [n \in Nodes |-> "1"]
    /\ \E b \in GwIfaceStates : bridgeIP = [n \in Nodes |-> IF n = 1 THEN b ELSE IP(1, 9)]
    /\ netDisk = [n \in Nodes |-> IF bridgeIP[n] >= 0 THEN bridgeIP[n] ELSE NoIP]
    /\ dhcpDisk = [n \in Nodes |-> <<100, DefaultDHCPAddressLimit>>]
    /\ alfred    = [n \in Nodes |-> NoRec]
    /\ omCache   = [n \in Nodes |-> "unloaded"]
    /\ dhcpCache = [n \in Nodes |-> <<>>]
    /\ sendPc    = [n \in Nodes |-> "idle"]
    /\ tick      = [n \in Nodes |-> NoTick]
    /\ crashed   = [n \in Nodes |-> FALSE]
    /\ faults = 0 /\ restarts = 0
    /\ gwRecords = <<>> /\ batGwys = <<>> /\ route = NoRoute /\ gwTick = NoGwTick
    /\ gwPanic = FALSE /\ gwFaults = 0 /\ envChanges = 0
    /\ gwStore = NoGwRec
    /\ IdleB /\ IdleD /\ IdleE /\ IdleF /\ IdleG /\ IdleH /\ IdleI

NextGwSend ==
    \/ \E f \in GwSendFails \cup {"none"} : GwSendTick(f)
    \/ \E b \in GwIfaceStates : IfaceChange(b)

SpecGwSend == InitGwSend /\ [][NextGwSend]_vars

----------------------------------------------------------------------------
(* Part D: the push-to-talk pipeline                                       *)

MaxHidEvents == 4

\* make(chan []float32, 2)
PlaybackCap == 2

\* ev.Value of a key event: 0 release, 1 press, 2 autorepeat
HidValues == {0, 1, 2}

\* A send that makes room by evicting the oldest frame
TrySendEvictOldest(buf, frame) ==
    IF Len(buf) < PlaybackCap THEN Append(buf, frame) ELSE Append(Tail(buf), frame)

\* select { case playbackBuffer <- out: default: drop }
TrySend(buf, frame) == IF Len(buf) < PlaybackCap THEN Append(buf, frame) ELSE buf

\* drainPlaybackBuffer: receive until the channel is empty
drainPlaybackBuffer(buf) == <<>>

\* The observation of a run of equal events starts anew when the value changes.
Observe(v) ==
    IF v = run.value THEN run
    ELSE [value |-> v, from |-> broadcasting, starts |-> 0, stops |-> 0, tones |-> 0,
          errs |-> 0]

\* monitorPTT: dev.ReadOne() and the switch on ev.Value
HidEvent(v) ==
    /\ pttPc = "read"
    /\ hidCount < MaxHidEvents
    /\ hidCount' = hidCount + 1
    /\ pttPc' = CASE v = 1 -> "begin" [] v = 0 -> "release" [] OTHER -> "read"
    /\ run' = IF v \in {0, 1} THEN Observe(v) ELSE run
    /\ opLog' = IF v \in {0, 1} THEN <<>> ELSE opLog
    /\ UNCHANGED <<broadcasting, micActive, playbackBuffer, pttFaults>>
    /\ UNCHANGED recvLog
    /\ UNCHANGED <<varsA, varsB, varsC, varsE, varsF, varsG, varsH, varsI>>

\* beginTransmission without the test of "broadcasting"
BeginLockedNoTest ==
    /\ pttPc = "begin"
    /\ broadcasting' = TRUE
    /\ pttPc' = "b_drain"
    /\ UNCHANGED <<micActive, playbackBuffer, run, opLog, hidCount, pttFaults>>
    /\ UNCHANGED recvLog
    /\ UNCHANGED <<varsA, varsB, varsC, varsE, varsF, varsG, varsH, varsI>>

\* beginTransmission: the locked test of "broadcasting"
BeginLocked ==
    /\ pttPc = "begin"
    /\ IF broadcasting
         THEN /\ pttPc' = "read"
              /\ UNCHANGED broadcasting
         ELSE /\ broadcasting' = TRUE
              /\ pttPc' = "b_drain"
    /\ UNCHANGED <<micActive, playbackBuffer, run, opLog, hidCount, pttFaults>>
    /\ UNCHANGED recvLog
    /\ UNCHANGED <<varsA, varsB, varsC, varsE, varsF, varsG, varsH, varsI>>

\* monitorPTT, case 0: if isBroadcasting() { endTransmission }
ReleaseCheck ==
    /\ pttPc = "release"
    /\ pttPc' = IF broadcasting THEN "end" ELSE "read"
    /\ UNCHANGED <<broadcasting, micActive, playbackBuffer, run, opLog, hidCount,
                   pttFaults>>
    /\ UNCHANGED recvLog
    /\ UNCHANGED <<varsA, varsB, varsC, varsE, varsF, varsG, varsH, varsI>>

\* endTransmission: the locked test of "broadcasting"
EndLocked ==
    /\ pttPc = "end"
    /\ pttPc' = IF broadcasting THEN "e_stop" ELSE "read"
    /\ UNCHANGED <<broadcasting, micActive, playbackBuffer, run, opLog, hidCount,
                   pttFaults>>
    /\ UNCHANGED recvLog
    /\ UNCHANGED <<varsA, varsB, varsC, varsE, varsF, varsG, varsH, varsI>>

\* bcastStream.Stop(); an error is logged and the function goes on.  A failed
\* call may or may not have stopped the stream.
MicStop(ok, stopped) ==
    /\ pttPc = "e_stop"
    /\ ok => stopped
    /\ ~ok => pttFaults < MaxFaults
    /\ pttFaults' = IF ok THEN pttFaults ELSE pttFaults + 1
    /\ micActive' = IF stopped THEN FALSE ELSE micActive
    /\ run' = [run EXCEPT !.stops = @ + 1, !.errs = IF ok THEN @ ELSE @ + 1]
    /\ opLog' = Append(opLog, IF ok THEN "mic_stop" ELSE "mic_stop_err")
    /\ pttPc' = "e_drain"
    /\ UNCHANGED <<broadcasting, playbackBuffer, hidCount>>
    /\ UNCHANGED recvLog
    /\ UNCHANGED <<varsA, varsB, varsC, varsE, varsF, varsG, varsH, varsI>>

\* drainPlaybackBuffer() of beginTransmission and of endTransmission
Drain ==
    /\ pttPc \in {"b_drain", "e_drain"}
    /\ playbackBuffer' = drainPlaybackBuffer(playbackBuffer)
    /\ pttPc' = IF pttPc = "b_drain" THEN "b_send" ELSE "e_send"
    /\ UNCHANGED <<broadcasting, micActive, run, opLog, hidCount, pttFaults>>
    /\ UNCHANGED recvLog
    /\ UNCHANGED <<varsA, varsB, varsC, varsE, varsF, varsG, varsH, varsI>>

\* playbackBuffer <- beepBufferStart, playbackBuffer <- beepBufferStop:
\* a channel send, which waits while the channel is full
ToneSendEnabled(buf) == Len(buf) < PlaybackCap
SendTone ==
    /\ pttPc \in {"b_send", "e_send"}
    /\ ToneSendEnabled(playbackBuffer)
    /\ playbackBuffer' = Append(playbackBuffer,
                                IF pttPc = "b_send" THEN "beepStart" ELSE "beepStop")
    /\ run' = [run EXCEPT !.tones = @ + 1]
    /\ opLog' = Append(opLog, IF pttPc = "b_send" THEN "tone_start" ELSE "tone_stop")
    /\ pttPc' = IF pttPc = "b_send" THEN "b_start" ELSE "e_clear"
    /\ UNCHANGED <<broadcasting, micActive, hidCount, pttFaults>>
    /\ UNCHANGED recvLog
    /\ UNCHANGED <<varsA, varsB, varsC, varsE, varsF, varsG, varsH, varsI>>

\* time.Sleep(200ms); bcastStream.Start(); on error "broadcasting" is reset.
\* Starting a stream that is not stopped is an error of the audio library.
MicStart(ok) ==
    /\ pttPc = "b_start"
    /\ (~ok /\ ~micActive) => pttFaults < MaxFaults
    /\ LET done == ok /\ ~micActive
       IN  /\ pttFaults' = IF ~ok /\ ~micActive THEN pttFaults + 1 ELSE pttFaults
           /\ micActive' = (micActive \/ done)
           /\ broadcasting' = IF done THEN broadcasting ELSE FALSE
           /\ run' = IF done THEN [run EXCEPT !.starts = @ + 1]
                            ELSE [run EXCEPT !.errs = @ + 1]
           /\ opLog' = Append(opLog, IF done THEN "mic_start" ELSE "mic_start_err")
    /\ pttPc' = "read"
    /\ UNCHANGED <<playbackBuffer, hidCount>>
    /\ UNCHANGED recvLog
    /\ UNCHANGED <<varsA, varsB, varsC, varsE, varsF, varsG, varsH, varsI>>

\* endTransmission: broadcasting = false under the mutex
EndClear ==
    /\ pttPc = "e_clear"
    /\ broadcasting' = FALSE
    /\ pttPc' = "read"
    /\ UNCHANGED <<micActive, playbackBuffer, run, opLog, hidCount, pttFaults>>
    /\ UNCHANGED recvLog
    /\ UNCHANGED <<varsA, varsB, varsC, varsE, varsF, varsG, varsH, varsI>>

\* receiveLoop: a decoded frame is offered to the playback channel
ReceiveFrame ==
    /\ playbackBuffer' = TrySend(playbackBuffer, "voice")
    /\ recvLog' = IF TrySend(playbackBuffer, "voice") # playbackBuffer
                    THEN "queued" ELSE "dropped"
    /\ UNCHANGED <<broadcasting, micActive, pttPc, run, opLog, hidCount, pttFaults>>
    /\ UNCHANGED <<varsA, varsB, varsC, varsE, varsF, varsG, varsH, varsI>>

\* The callback of the playback stream takes one frame, or plays silence.
PlaybackCallback ==
    /\ playbackBuffer' = IF playbackBuffer = <<>> THEN <<>> ELSE Tail(playbackBuffer)
    /\ UNCHANGED <<broadcasting, micActive, pttPc, run, opLog, hidCount, pttFaults>>
    /\ UNCHANGED recvLog
    /\ UNCHANGED <<varsA, varsB, varsC, varsE, varsF, varsG, varsH, varsI>>

InitD == IdleD /\ IdleA /\ IdleB /\ IdleC /\ IdleE /\ IdleF /\ IdleG /\ IdleH /\ IdleI

NextD ==
    \/ \E v \in HidValues : HidEvent(v)
    \/ BeginLocked
    \/ ReleaseCheck
    \/ EndLocked
    \/ \E ok \in BOOLEAN : \E stopped \in BOOLEAN : MicStop(ok, stopped)
    \/ Drain
    \/ SendTone
    \/ \E ok \in BOOLEAN : MicStart(ok)
    \/ EndClear
    \/ ReceiveFrame
    \/ PlaybackCallback

SpecPTT == InitD /\ [][NextD]_vars

----------------------------------------------------------------------------
(* Part E: PTTConfig.Start inside openmanet.Start: the resources it takes, *)
(* its signal goroutine and its wait for a termination signal.             *)

\* openmanet.Start calls ptt.Start(); a disabled PTT returns at once
PttStartCall ==
    /\ sup = "boot" /\ pttMain = "notcalled"
    /\ pttMain' = IF pttOn THEN "init" ELSE "returned"
    /\ UNCHANGED <<pttOn, pttHandler, pttSigs, pttC, res>>
    /\ UNCHANGED <<varsA, varsB, varsC, varsD, varsF, varsG, varsH, varsI>>

\* Opus encoder and decoder, portaudio.Initialize, signal.Notify(sigs) and the
\* goroutine that waits on sigs
PttInit ==
    /\ ~ProcessGone /\ pttMain = "init"
    /\ res' = [res EXCEPT !.codec = "alive", !.pa = "initialized"]
    /\ pttHandler' = "waiting"
    /\ pttMain' = "open"
    /\ UNCHANGED <<pttOn, pttSigs, pttC>>
    /\ UNCHANGED <<varsA, varsB, varsC, varsD, varsF, varsG, varsH, varsI>>

\* playback stream opened and started, mic stream opened, both UDP sockets,
\* go receiveLoop, go monitorPTT
PttOpen ==
    /\ ~ProcessGone /\ pttMain = "open"
    /\ res' = [res EXCEPT !.playback = "started", !.bcast = "open",
                          !.sendSock = "open", !.recvSock = "open",
                          !.hid = "running"]
    /\ pttMain' = "notify"
    /\ UNCHANGED <<pttOn, pttHandler, pttSigs, pttC>>
    /\ UNCHANGED <<varsA, varsB, varsC, varsD, varsF, varsG, varsH, varsI>>

\* Log.Fatal of a failed set-up step: os.Exit(1)
PttFatal ==
    /\ ~ProcessGone /\ pttMain \in {"init", "open"}
    /\ sup' = "fatal"
    /\ UNCHANGED <<enabled, loops, sigChan, delivered>>
    /\ UNCHANGED <<varsA, varsC, varsD, varsE, varsF, varsG, varsH, varsI>>

\* c := make(chan os.Signal, 1); signal.Notify(c, os.Interrupt, syscall.SIGTERM)
PttNotify ==
    /\ ~ProcessGone /\ pttMain = "notify"
    /\ pttMain' = "waiting"
    /\ UNCHANGED <<pttOn, pttHandler, pttSigs, pttC, res>>
    /\ UNCHANGED <<varsA, varsB, varsC, varsD, varsF, varsG, varsH, varsI>>

\* <-c of PTTConfig.Start
PttRecv ==
    /\ ~ProcessGone /\ pttMain = "waiting"
    /\ pttC > 0
    /\ pttC' = pttC - 1
    /\ pttMain' = "d1"
    /\ UNCHANGED <<pttOn, pttHandler, pttSigs, res>>
    /\ UNCHANGED <<varsA, varsB, varsC, varsD, varsF, varsG, varsH, varsI>>

\* The deferred calls run last registered first: broadcastStream.Close(),
\* playbackStream.Close(), playbackStream.Stop() (an error on the closed stream)
PttDefer ==
    /\ ~ProcessGone /\ pttMain \in {"d1", "d2", "d3"}
    /\ res' = CASE pttMain = "d1" -> [res EXCEPT !.bcast = "closed"]
                [] pttMain = "d2" -> [res EXCEPT !.playback = "closed"]
                [] OTHER          -> res
    /\ pttMain' = CASE pttMain = "d1" -> "d2" [] pttMain = "d2" -> "d3"
                    [] OTHER -> "returned"
    /\ UNCHANGED <<pttOn, pttHandler, pttSigs, pttC>>
    /\ UNCHANGED <<varsA, varsB, varsC, varsD, varsF, varsG, varsH, varsI>>

\* <-sigs of the signal goroutine
HandlerRecv ==
    /\ ~ProcessGone /\ pttHandler = "waiting"
    /\ pttSigs > 0
    /\ pttSigs' = pttSigs - 1
    /\ pttHandler' = "terminate"
    /\ UNCHANGED <<pttOn, pttMain, pttC, res>>
    /\ UNCHANGED <<varsA, varsB, varsC, varsD, varsF, varsG, varsH, varsI>>

\* portaudio.Terminate(), which closes the streams that are still open
HandlerTerminate ==
    /\ ~ProcessGone /\ pttHandler = "terminate"
    /\ res' = [res EXCEPT !.pa = "terminated",
                          !.playback = IF @ = "none" THEN @ ELSE "closed",
                          !.bcast    = IF @ = "none" THEN @ ELSE "closed"]
    /\ pttHandler' = "exit"
    /\ UNCHANGED <<pttOn, pttMain, pttSigs, pttC>>
    /\ UNCHANGED <<varsA, varsB, varsC, varsD, varsF, varsG, varsH, varsI>>

\* os.Exit(0): the process ends, no deferred call runs
HandlerExit ==
    /\ ~ProcessGone /\ pttHandler = "exit"
    /\ sup' = "exited"
    /\ UNCHANGED <<enabled, loops, sigChan, delivered>>
    /\ UNCHANGED <<varsA, varsC, varsD, varsE, varsF, varsG, varsH, varsI>>

InitE ==
    /\ pttOn \in BOOLEAN
    /\ pttMain = "notcalled" /\ pttHandler = "none"
    /\ pttSigs = 0 /\ pttC = 0 /\ res = NoRes
    /\ enabled \in SUBSET Pairs
    /\ sup = "boot"
    /\ loops = [l \in LoopIds |-> "off"]
    /\ sigChan = 0 /\ delivered = 0
    /\ IdleA /\ IdleC /\ IdleD /\ IdleF /\ IdleG /\ IdleH /\ IdleI

NextE ==
    \/ PttStartCall
    \/ PttInit
    \/ PttOpen
    \/ PttFatal
    \/ PttNotify
    \/ PttRecv
    \/ PttDefer
    \/ HandlerRecv
    \/ HandlerTerminate
    \/ HandlerExit
    \/ MgmtStart
    \/ Notify
    \/ Signal
    \/ \E l \in LoopIds : LoopTick(l)
    \/ \E l \in LoopIds : LoopTickDone(l)
    \/ \E l \in LoopIds : LoopShutdown(l)
    \/ SupExit

\* Every goroutine that can run does run; a set-up step need not fail and a
\* signal need not come.
FairE ==
    /\ FairB
    /\ WF_vars(PttStartCall) /\ WF_vars(PttInit) /\ WF_vars(PttOpen)
    /\ WF_vars(PttNotify) /\ WF_vars(PttRecv) /\ WF_vars(PttDefer)
    /\ WF_vars(HandlerRecv) /\ WF_vars(HandlerTerminate) /\ WF_vars(HandlerExit)

SpecPttBoot == InitE /\ [][NextE]_vars /\ FairE

----------------------------------------------------------------------------
(* Part F: SelectAvailableStaticIP and CalculateAvailableDHCPStart applied  *)
(* to record sets drawn from a pool of records and from families that fill  *)
(* the candidate ranges.                                                    *)

\* proto.AddressReservation with the fields the two functions read
Reservation(m, ip, start, limit, req) ==
    [present |-> TRUE, mac |-> m, ip |-> ip, start |-> start, limit |-> limit,
     req |-> req]

\* Records of settled nodes, of a requesting node without an address, of a
\* node inside a restricted slice, of a node outside 10.41.0.0/16, and an
\* undecodable payload
Pool ==
    <<Reservation(1, IP(0, 1), 100, 150, FALSE),
      Reservation(2, IP(0, 2), 250, 150, FALSE),
      Reservation(3, IP(1, 1), 1, 99, FALSE),
      Reservation(4, IP(1, 2), 400, 65135, FALSE),
      Reservation(5, NoIP, 0, 0, TRUE),
      Reservation(6, IP(253, 7), 100, 10, FALSE),
      Reservation(7, 70000, 90, 20, FALSE),
      Garbage>>

\* The third octets the normal mode scans, and the rank of a candidate in
\* the order of the scan
NormalThird == (1..255) \ {253, 254}
Rank(t, h) == (IF t = 255 THEN 252 ELSE t - 1) * 254 + h

\* The first n candidates of the gateway scan, of the normal scan
GatewayFill(n) == {Reservation(0, IP(0, h), 0, 0, FALSE) : h \in 1..n}
NormalFill(n) ==
    {Reservation(0, IP(p[1], p[2]), 0, 0, FALSE) :
        p \in {q \in NormalThird \X (1..254) : Rank(q[1], q[2]) <= n}}

GatewayFills == {253, 254}
NormalFills  == {254, 252 * 254, 253 * 254 - 1, 253 * 254}
Limits       == {0, 1, 150, 65435, 65534, IntMax - 99, IntMax}

\* Records for the search loop of CalculateAvailableDHCPStart followed step
\* by step: windows around both first candidates, a window up to the end of
\* the /16, a window that ends at the largest int, one whose end wraps
\* around, an undecodable payload
LoopPool ==
    <<Reservation(1, IP(0, 1), 100, 150, FALSE),
      Reservation(2, IP(0, 2), 250, 150, FALSE),
      Reservation(3, IP(1, 1), 1, 99, FALSE),
      Reservation(4, IP(1, 2), 400, 65135, FALSE),
      Reservation(5, IP(1, 3), 1, IntMax, FALSE),
      Reservation(6, IP(1, 4), IntMax, 2, FALSE),
      Garbage>>

\* The record set an argument tuple stands for
RecordsOf(in) ==
    CASE in.fam = "pool"   -> {Pool[i] : i \in in.sub}
      [] in.fam = "gwfill" -> GatewayFill(in.n)
      [] in.fam = "fill"   -> NormalFill(in.n)
      [] in.fam = "loop"   -> {LoopPool[i] : i \in in.sub}
      [] OTHER             -> {}

\* staticIP, err := network.SelectAvailableStaticIP(records, gatewayMode)
SelectIPCall ==
    /\ selIn.fam # "none"
    /\ ~selOut.ipCalled
    /\ selOut' = [selOut EXCEPT !.ipCalled = TRUE,
                     !.ip = SelectAvailableStaticIP(RecordsOf(selIn), selIn.gw)]
    /\ UNCHANGED selIn
    /\ UNCHANGED <<varsA, varsB, varsC, varsD, varsE, varsG, varsH, varsI>>

\* dhcpStart, err := network.CalculateAvailableDHCPStart(records, ..., limit)
DHCPStartCall ==
    /\ selIn.fam # "none"
    /\ ~selOut.startCalled
    /\ selOut' = [selOut EXCEPT !.startCalled = TRUE,
                     !.start = CalculateAvailableDHCPStart(RecordsOf(selIn), selIn.limit)]
    /\ UNCHANGED selIn
    /\ UNCHANGED <<varsA, varsB, varsC, varsD, varsE, varsG, varsH, varsI>>

InitF ==
    /\ \/ \E sub \in SUBSET (1..Len(Pool)) : \E gw \in BOOLEAN : \E l \in Limits :
             selIn = [fam |-> "pool", sub |-> sub, n |-> 0, gw |-> gw, limit |-> l]
       \/ \E n \in GatewayFills : \E gw \in BOOLEAN :
             selIn = [fam |-> "gwfill", sub |-> {}, n |-> n, gw |-> gw,
                      limit |-> DefaultDHCPAddressLimit]
       \/ \E n \in NormalFills :
             selIn = [fam |-> "fill", sub |-> {}, n |-> n, gw |-> FALSE,
                      limit |-> DefaultDHCPAddressLimit]
    /\ selOut = NoCall
    /\ IdleA /\ IdleB /\ IdleC /\ IdleD /\ IdleE /\ IdleG /\ IdleH /\ IdleI

NextF == SelectIPCall \/ DHCPStartCall

SpecSelect == InitF /\ [][NextF]_vars

\* CalculateAvailableDHCPStart followed step by step.  selOut holds the
\* position (pc: "call", "pass1", "pass2", "done"), the candidate, the number
\* of conflicts met and the result (0 is the error).
InitLoop ==
    /\ \E sub \in SUBSET (1..Len(LoopPool)) : \E l \in Limits :
          selIn = [fam |-> "loop", sub |-> sub, n |-> 0, gw |-> FALSE, limit |-> l]
    /\ selOut = [pc |-> "call", candidate |-> 0, conflicts |-> 0, result |-> 0]
    /\ IdleA /\ IdleB /\ IdleC /\ IdleD /\ IdleE /\ IdleG /\ IdleH /\ IdleI

\* Lines 830-903: the test of desiredLimit, the existing ranges, candidate
\* := 100
DHCPStartEnter ==
    /\ selOut.pc = "call"
    /\ selOut' = IF selIn.limit <= 0 THEN [selOut EXCEPT !.pc = "done"]
                 ELSE [selOut EXCEPT !.pc = "pass1", !.candidate = 100]
    /\ UNCHANGED selIn
    /\ UNCHANGED <<varsA, varsB, varsC, varsD, varsE, varsG, varsH, varsI>>

\* One evaluation of the loop condition and, if it holds, one iteration of
\* the outer loop of a pass (lines 906-924, 928-943).  The inner loop stops
\* at the first overlapping range in the order of sort.Slice: a range with
\* the least start among the overlapping ones.
DHCPStartStep ==
    /\ selOut.pc \in {"pass1", "pass2"}
    /\ LET candidate   == selOut.candidate
           proposedEnd == RangeEnd(candidate, selIn.limit)
           hits == {r \in ExistingRanges(RecordsOf(selIn)) :
                       rangesOverlap(candidate, proposedEnd, r[1], r[2])}
       IN  IF proposedEnd > NetworkSize
           THEN selOut' = IF selOut.pc = "pass1"
                          THEN [selOut EXCEPT !.pc = "pass2", !.candidate = 1]
                          ELSE [selOut EXCEPT !.pc = "done", !.result = 0]
           ELSE IF hits = {}
                THEN selOut' = [selOut EXCEPT !.pc = "done", !.result = candidate]
                ELSE \E r \in hits :
                        /\ \A q \in hits : r[1] <= q[1]
                        /\ selOut' = [selOut EXCEPT !.candidate = AddInt(r[2], 1),
                                                    !.conflicts = @ + 1]
    /\ UNCHANGED selIn
    /\ UNCHANGED <<varsA, varsB, varsC, varsD, varsE, varsG, varsH, varsI>>

NextLoop == DHCPStartEnter \/ DHCPStartStep

\* The function runs to its return once called
SpecLoop == InitLoop /\ [][NextLoop]_vars /\ WF_vars(NextLoop)


\* rangesOverlap applied to two ranges in both orders.  The ends of a range
\* are drawn from the offsets the selection meets: around the first
\* candidates, the ends of a default window, the largest int; a range may
\* be empty or inverted (start > end).
RangePoints == {-1, 0, 1, 99, 100, 249, 250, IntMax}

RangesF == RangePoints \X RangePoints

InitOverlap ==
    /\ \E a \in RangesF : \E b \in RangesF : selIn = [a |-> a, b |-> b]
    /\ selOut = [called |-> FALSE, ab |-> FALSE, ba |-> FALSE]
    /\ IdleA /\ IdleB /\ IdleC /\ IdleD /\ IdleE /\ IdleG /\ IdleH /\ IdleI

OverlapCall ==
    /\ ~selOut.called
    /\ selOut' = [called |-> TRUE,
                  ab |-> rangesOverlap(selIn.a[1], selIn.a[2], selIn.b[1], selIn.b[2]),
                  ba |-> rangesOverlap(selIn.b[1], selIn.b[2], selIn.a[1], selIn.a[2])]
    /\ UNCHANGED selIn
    /\ UNCHANGED <<varsA, varsB, varsC, varsD, varsE, varsG, varsH, varsI>>

SpecOverlap == InitOverlap /\ [][OverlapCall]_vars


----------------------------------------------------------------------------
(* Part G: SetDHCPConfigured, ClearDHCPConfigured and IsDHCPConfigured     *)
(* called one after the other in one process through one                   *)
(* UCIOpenMANETConfigReader.  The flag is node 1's: omDisk[1] is the file, *)
(* omCache[1] the option as the go-uci default tree holds it.              *)

MaxCalls == 4

\* SetDHCPConfiguredWithReader: reader.AddSection goes to the default tree (which
\* may load the file on that occasion), reader.SetType and reader.Commit go
\* to the reader's own tree and write "1" to the file.
SetDHCPConfigured(load) ==
    /\ Len(flagCalls) < MaxCalls
    /\ omCache' = [omCache EXCEPT ![1] = IF load THEN OMGet(1) ELSE @]
    /\ omDisk' = [omDisk EXCEPT ![1] = "1"]
    /\ flagCalls' = Append(flagCalls, "set")
    /\ flagAnswer' = "none"
    /\ UNCHANGED <<live, gwServer, netDisk, dhcpDisk, dhcpCache, bridgeIP, alfred,
                   sendPc, tick, crashed, faults, restarts>>
    /\ UNCHANGED <<varsB, varsC, varsD, varsE, varsF, varsH, varsI>>

\* ClearDHCPConfiguredWithReader: reader.AddSection goes to the default tree (which
\* may load the file on that occasion), reader.SetType and reader.Commit go
\* to the reader's own tree and write "0" to the file.
ClearDHCPConfigured(load) ==
    /\ Len(flagCalls) < MaxCalls
    /\ omCache' = [omCache EXCEPT ![1] = IF load THEN OMGet(1) ELSE @]
    /\ omDisk' = [omDisk EXCEPT ![1] = "0"]
    /\ flagCalls' = Append(flagCalls, "clear")
    /\ flagAnswer' = "none"
    /\ UNCHANGED <<live, gwServer, netDisk, dhcpDisk, dhcpCache, bridgeIP, alfred,
                   sendPc, tick, crashed, faults, restarts>>
    /\ UNCHANGED <<varsB, varsC, varsD, varsE, varsF, varsH, varsI>>

\* IsDHCPConfiguredWithReader: reader.Get reads the default tree, which loads
\* the file on its first use and answers from memory afterwards
IsDHCPConfigured ==
    /\ omCache' = [omCache EXCEPT ![1] = OMGet(1)]
    /\ flagAnswer' = LET c == IsDHCPConfiguredWithReader(OMGet(1))
                     IN  IF c.err THEN "error"
                         ELSE IF c.configured THEN "true" ELSE "false"
    /\ UNCHANGED <<live, gwServer, omDisk, netDisk, dhcpDisk, dhcpCache, bridgeIP,
                   alfred, sendPc, tick, crashed, faults, restarts>>
    /\ UNCHANGED flagCalls
    /\ UNCHANGED <<varsB, varsC, varsD, varsE, varsF, varsH, varsI>>

InitG ==
    /\ live = {}
    /\ gwServer = {}
    /\ \E v \in {"", "0", "1"} : omDisk = [n \in Nodes |-> IF n = 1 THEN v ELSE "0"]
    /\ bridgeIP = [n \in Nodes |-> IP(1, 9)]
    /\ netDisk = bridgeIP
    /\ dhcpDisk = [n \in Nodes |-> <<100, DefaultDHCPAddressLimit>>]
    /\ alfred = [n \in Nodes |-> NoRec]
    /\ InitCommonA

NextG ==
    \/ \E load \in BOOLEAN : SetDHCPConfigured(load)
    \/ \E load \in BOOLEAN : ClearDHCPConfigured(load)
    \/ IsDHCPConfigured

SpecFlag == InitG /\ [][NextG]_vars

----------------------------------------------------------------------------
(* Part H: the receive loop of the gateway worker in time: its ticker, the *)
(* body of a tick and the mesh-config probe the body starts with.  Time is *)
(* counted in ticker periods.                                              *)

MaxTime == 8

\* gatewayDataWorkerRecvInterval, in seconds
RecvInterval == 10

\* "Mesh config cached for 60s", in seconds
MeshCacheTTL == 60

\* The channel of a time.Ticker buffers one tick
TickerCap == 1

\* The ticker's send on ticker.C: queues every tick
TickerSendQueued(c) == c + 1

\* The ticker's send on ticker.C: a tick that finds the channel full is
\* dropped
TickerSend(c) == IF c < TickerCap THEN c + 1 ELSE c

\* A period of the ticker started by time.NewTicker(gw.recvInterval) ends
TickerFire ==
    /\ now < MaxTime
    /\ now' = now + 1
    /\ tickerC' = TickerSend(tickerC)
    /\ missed' = IF TickerSend(tickerC) = tickerC THEN missed + 1 ELSE missed
    /\ burst' = 0
    /\ UNCHANGED <<running, meshAt, cliCalls>>
    /\ UNCHANGED <<varsA, varsB, varsC, varsD, varsE, varsF, varsG, varsI>>

\* GatewayWorker.StartReceive, case <-ticker.C: the loop takes a tick and the
\* body begins with batmanadv.GetMeshConfig, which runs "batctl mj"; ok is
\* the outcome of the command and of the decoding
WorkerTick(ok) ==
    /\ running = 0
    /\ tickerC > 0
    /\ tickerC' = tickerC - 1
    /\ running' = running + 1
    /\ burst' = burst + 1
    /\ cliCalls' = cliCalls + 1
    /\ meshAt' = IF ok THEN now ELSE meshAt
    /\ UNCHANGED <<now, missed>>
    /\ UNCHANGED <<varsA, varsB, varsC, varsD, varsE, varsF, varsG, varsI>>

\* The body of the tick ends, the loop is back at its select
WorkerTickDone ==
    /\ running > 0
    /\ running' = running - 1
    /\ UNCHANGED <<now, tickerC, burst, missed, meshAt, cliCalls>>
    /\ UNCHANGED <<varsA, varsB, varsC, varsD, varsE, varsF, varsG, varsI>>

InitH == IdleA /\ IdleB /\ IdleC /\ IdleD /\ IdleE /\ IdleF /\ IdleG /\ IdleH /\ IdleI

NextH ==
    \/ TickerFire
    \/ \E ok \in BOOLEAN : WorkerTick(ok)
    \/ WorkerTickDone

SpecTicker == InitH /\ [][NextH]_vars

----------------------------------------------------------------------------
(* Part I: receiveLoop of push-to-talk with the source address of every    *)
(* frame, on node 1, whose bridge address (bridgeIP[1]) may change while   *)
(* the pipeline runs.                                                      *)

\* The addresses the bridge of the node carries in turn
PttBridgeIPs == {IP(1, 1), IP(1, 9), IP(254, 1)}

\* The source addresses of the frames the multicast socket delivers
FrameSources == PttBridgeIPs \cup {LoopbackAddr, IP(1, 2)}

\* receiveLoop, one frame: the filter on the source and the offer to the
\* playback channel.  decoded is the outcome of decoder.Decode.
PttReceive(src, decoded) ==
    /\ playbackSrc' =
          IF ~loopbackAudio /\ (src = LoopbackAddr \/ IPString(src) = localIP)
          THEN playbackSrc
          ELSE IF ~decoded THEN playbackSrc
          ELSE TrySend(playbackSrc, src)
    /\ UNCHANGED <<loopbackAudio, localIP>>
    /\ UNCHANGED <<varsA, varsB, varsC, varsD, varsE, varsF, varsG, varsH>>

\* The callback of the playback stream takes one frame
PttPlayback ==
    /\ playbackSrc # <<>>
    /\ playbackSrc' = Tail(playbackSrc)
    /\ UNCHANGED <<loopbackAudio, localIP>>
    /\ UNCHANGED <<varsA, varsB, varsC, varsD, varsE, varsF, varsG, varsH>>

\* The state Start leaves: loopbackAudio = ptt.Loopback, localIP = the first
\* IPv4 address of the interface at that moment (getIfaceIPv4)
InitI ==
    /\ live = {} /\ gwServer = {}
    /\ omDisk = [n \in Nodes |-> "1"]
    /\ \E b \in PttBridgeIPs : bridgeIP = [n \in Nodes |-> IF n = 1 THEN b ELSE IP(1, 2)]
    /\ netDisk = bridgeIP
    /\ dhcpDisk = [n \in Nodes |-> <<100, DefaultDHCPAddressLimit>>]
    /\ alfred = [n \in Nodes |-> NoRec]
    /\ omCache   = [n \in Nodes |-> "unloaded"]
    /\ dhcpCache = [n \in Nodes |-> <<>>]
    /\ sendPc    = [n \in Nodes |-> "idle"]
    /\ tick      = [n \in Nodes |-> NoTick]
    /\ crashed   = [n \in Nodes |-> FALSE]
    /\ faults = 0 /\ restarts = 0
    /\ loopbackAudio \in BOOLEAN
    /\ localIP = IPString(bridgeIP[1])
    /\ playbackSrc = <<>>
    /\ IdleB /\ IdleC /\ IdleD /\ IdleE /\ IdleF /\ IdleG /\ IdleH

NextI ==
    \/ \E src \in FrameSources : \E decoded \in BOOLEAN : PttReceive(src, decoded)
    \/ PttPlayback
    \/ \E b \in PttBridgeIPs : IfaceChange(b)

SpecPttRecv == InitI /\ [][NextI]_vars




----------------------------------------------------------------------------
(* Claims about the address reservation                                    *)

\* CONFIGURED: dhcp_configured = "1" is persisted on the node
Configured(n) == omDisk[n] = "1"

\* The DHCP windows of nodes a and b share an offset
WindowsOverlap(a, b) ==
    rangesOverlap(dhcpDisk[a][1], dhcpDisk[a][1] + dhcpDisk[a][2] - 1,
                  dhcpDisk[b][1], dhcpDisk[b][1] + dhcpDisk[b][2] - 1)

\* C1: three nodes that start UNCONFIGURED against an empty Alfred store
\* hold, once all three are CONFIGURED, three distinct static IPs and
\* pairwise non-overlapping DHCP windows.
C1_ColdStartDistinct ==
    (\A n \in Nodes : Configured(n)) =>
        \A a, b \in Nodes :
            a # b => netDisk[a] # netDisk[b] /\ ~WindowsOverlap(a, b)

\* C2: a node that becomes CONFIGURED while node 1 is CONFIGURED ends with
\* a static IP other than node 1's and a DHCP window disjoint from node 1's.
C2_JoinerDistinct ==
    (Configured(1) /\ Configured(2)) =>
        netDisk[2] # netDisk[1] /\ ~WindowsOverlap(1, 2)

\* The steps of a completed UNCONFIGURED -> CONFIGURED transition, in order
FullLog == <<"net", "dhcp", "reload", "flag">>

Range(seq) == {seq[i] : i \in 1..Len(seq)}

\* C5: once dhcp_configured = "1" is persisted on a node, the node's send
\* loop never publishes a record with requesting_reservation = true again.
C5_NoRequestOnceConfigured ==
    [][\A n \in Nodes :
          (SendPublish(n, TRUE) /\ bridgeIP[n] # NoIP) => ~Configured(n)]_vars

\* C6: a receive tick writes dhcp_configured = 1 only as the last of the
\* steps network write, DHCP write, network reload, flag write, all of them
\* successful and in this order in that tick; a tick in which a step fails
\* does not write the flag and leaves an UNCONFIGURED node UNCONFIGURED.
C6_FlagAfterWrites ==
    [][\A n \in Nodes : \A f \in FailPoints \cup {"none"} :
          RecvTick(n, f) =>
             /\ ("flag" \in Range(tick'[n].log) \/ omDisk'[n] # omDisk[n])
                   => (tick'[n].log = FullLog /\ tick'[n].fail = "none")
             /\ tick'[n].fail # "none"
                   => (omDisk'[n] = omDisk[n] /\ (~Configured(n) => omDisk'[n] # "1"))]_vars

\* C6 witness: a node has completed the transition in its latest receive tick
C6_Witness ==
    \E n \in Nodes : tick[n].log = FullLog /\ tick[n].fail = "none" /\ Configured(n)

\* C7: a receive tick of an UNCONFIGURED node in which a step fails leaves
\* the network section and the DHCP section as they were before the tick.
C7_FailedTickNoPartialCommit ==
    [][\A n \in Nodes : \A f \in FailPoints \cup {"none"} :
          (RecvTick(n, f) /\ ~Configured(n) /\ tick'[n].fail # "none")
             => (netDisk'[n] = netDisk[n] /\ dhcpDisk'[n] = dhcpDisk[n])]_vars

\* The UCI state of node n
UCI(n) == <<omDisk[n], netDisk[n], dhcpDisk[n]>>

\* C8: with an unchanged record set, a receive tick of a CONFIGURED node
\* leaves the UCI state as it is, and the receive tick that follows a
\* completed transition writes nothing.
C8_TwiceIdempotent ==
    [][\A f \in FailPoints \cup {"none"} :
          RecvTick(1, f) =>
             /\ Configured(1) => UCI(1)' = UCI(1)
             /\ tick[1].log = FullLog => tick'[1].log = <<>>]_vars


----------------------------------------------------------------------------
(* Claims about shutdown                                                   *)

\* The loop has returned, was never started, or ended with the process.
LoopStopped(l) == loops[l] \in {"off", "returned"} \/ ProcessGone

\* C3: after a termination signal has been delivered, every running send
\* loop and receive loop of every enabled worker pair comes to an end.
C3_AllLoopsReturn == (delivered > 0) ~> (\A l \in LoopIds : LoopStopped(l))

\* C4: after a termination signal has been delivered, the supervisor stops
\* waiting and the process exits, however many worker loops are running.
C4_SupervisorExits == (delivered > 0) ~> ProcessGone

----------------------------------------------------------------------------
(* Claims about the gateway engine                                         *)

\* Indexes of the decodable Gateway records whose mac is m
Matching(m) == {i \in 1..Len(gwRecords) : gwRecords[i].ok /\ gwRecords[i].mac = m}

\* The one record with mac m carries a parsable ipaddr
OneMatch(m) ==
    /\ Cardinality(Matching(m)) = 1
    /\ \A i \in Matching(m) : ParseIP(gwRecords[i].ipaddr) # NoIP

\* After the step the default route leads to the ipaddr of the record of m
RouteVia(m) ==
    /\ route'.present
    /\ \A i \in Matching(m) : route'.gw = ParseIP(gwRecords[i].ipaddr)

\* C9: batman-adv reports exactly one gateway, with originator MAC M, and
\* exactly one Gateway record has mac M: after one receive tick of a node
\* that is not in server mode the default route's gateway is that record's
\* ipaddr, whatever default route there was before the tick.
C9_SingleGatewayRoute ==
    [][(/\ GwRecvTick("none")
        /\ ~IsGatewayMode(gwMode)
        /\ Len(batGwys) = 1 /\ batGwys[1].best
        /\ OneMatch(batGwys[1].orig))
          => RouteVia(batGwys[1].orig)]_vars

\* C10: the gateway batman-adv flags best is another one than at the latest
\* receive tick and one Gateway record carries its MAC: after the next
\* receive tick the default route's gateway is that record's ipaddr, with one
\* gateway listed as well as with several.
C10_BestChangeRoute ==
    [][(/\ GwRecvTick("none")
        /\ ~IsGatewayMode(gwMode)
        /\ gwTick.branch \in {"single", "multi"}
        /\ GetBest(batGwys) # 0
        /\ gwTick.best # batGwys[GetBest(batGwys)].orig
        /\ OneMatch(batGwys[GetBest(batGwys)].orig))
          => RouteVia(batGwys[GetBest(batGwys)].orig)]_vars

\* C11: a receive tick of the gateway worker changes the default route only
\* when the node is not in server mode and a Gateway record carries the MAC
\* of the batman-adv gateway flagged best; in server mode, with no gateway
\* listed or with no matching record the route stays as it is.
C11_RouteChangeOnlyOnMatch ==
    [][\A f \in GwFailPoints \cup {"none"} :
          (GwRecvTick(f) /\ route' # route) =>
             /\ gwMode # "server"
             /\ GetBest(batGwys) # 0
             /\ Matching(batGwys[GetBest(batGwys)].orig) # {}]_vars

\* C11 witness: the latest receive tick has replaced the default route
C11_Witness == gwTick.replaced > 0 /\ route.present /\ ~gwPanic

\* C12: no IPv4 default route exists and the receive tick of a node that is
\* not in server mode finds the record matching the best gateway: after the
\* tick a default route via that record's ipaddr on the node's bridge
\* interface is installed.
C12_InstallWhenNoRoute ==
    [][(/\ GwRecvTick("none")
        /\ gwMode # "server"
        /\ ~route.present
        /\ GetBest(batGwys) # 0
        /\ OneMatch(batGwys[GetBest(batGwys)].orig))
          => (RouteVia(batGwys[GetBest(batGwys)].orig) /\ route'.dev = OwnIFace)]_vars

\* C13: one receive tick replaces the default route at most once, also when
\* several records carry the MAC of the best gateway.
C13_AtMostOneReplacement == gwTick.replaced <= 1

----------------------------------------------------------------------------
(* Claims about failures inside a tick                                     *)

\* The bridge interface of node n carries no IPv4 address
NoIPv4(n) == bridgeIP[n] \in {NoIP, V6Addr}

\* C15: no failure inside a tick, missing interface data included, ends a
\* worker loop: the daemon of every node keeps running.
C15_LoopsSurviveFailures == \A n \in Nodes : ~crashed[n]

\* C16: with no IPv4 address on the bridge interface a send tick publishes
\* nothing and the loop goes on: the publishing step of the reservation send
\* tick leaves the Alfred store as it is and the daemon running, and the
\* gateway send tick leaves the published Gateway record as it is.
C16_NoIPv4SendSkipped ==
    [][/\ \A n \in Nodes : \A ok \in BOOLEAN :
             (SendPublish(n, ok) /\ NoIPv4(n)) => (alfred' = alfred /\ ~crashed'[n])
       /\ \A f \in GwSendFails \cup {"none"} :
             (GwSendTick(f) /\ NoIPv4(1)) => gwStore' = gwStore]_vars

----------------------------------------------------------------------------
(* Claims about the push-to-talk pipeline                                  *)

\* The HID monitor has finished the event it read.
Handled == pttPc = "read"

C18_MicOnlyWhileBroadcasting == ~broadcasting => ~micActive

\* C19: the mic stream becomes active only after the start tone of this
\* press has been queued, and the stop tone is queued only when the mic
\* stream is stopped.
C19_ToneOrder ==
    [][/\ (~micActive /\ micActive') =>
              (opLog # <<>> /\ opLog[Len(opLog)] = "tone_start")
       /\ (pttPc = "e_send" /\ pttPc' = "e_clear") => ~micActive]_vars

\* C20: no producer waits on the playback queue: the HID monitor is never
\* at a tone send that the full queue does not let through.
C20_NoProducerWaits ==
    pttPc \in {"b_send", "e_send"} => ToneSendEnabled(playbackBuffer)

\* C21: the playback queue never holds more than PlaybackCap frames; the
\* receive loop can always take its step, and when the queue is full that
\* step leaves the queue as it was and logs the drop.
C21_QueueBoundedDropNewest ==
    [][/\ Len(playbackBuffer) <= PlaybackCap /\ Len(playbackBuffer') <= PlaybackCap
       /\ ENABLED ReceiveFrame
       /\ (ReceiveFrame /\ Len(playbackBuffer) = PlaybackCap) =>
             (playbackBuffer' = playbackBuffer /\ recvLog' = "dropped")]_vars

\* C21 witness: a frame was dropped while a tone and a frame were queued.
C21_Witness ==
    /\ recvLog = "dropped" /\ Len(playbackBuffer) = PlaybackCap
    /\ playbackBuffer[1] = "beepStart"

----------------------------------------------------------------------------
(* Claims about the start and the termination of push-to-talk              *)

\* Every resource PTTConfig.Start took has been released by the program.
Released ==
    /\ res.hid \in {"none", "stopped"}
    /\ res.playback \in {"none", "closed"} /\ res.bcast \in {"none", "closed"}
    /\ res.sendSock \in {"none", "closed"} /\ res.recvSock \in {"none", "closed"}
    /\ res.codec \in {"none", "released"}

\* The PTT subsystem has finished its handling of a termination signal:
\* PTTConfig.Start has returned, or its signal goroutine has ended the process.
PttTerminated ==
    /\ pttOn /\ delivered > 0
    /\ pttMain = "returned" \/ (sup = "exited" /\ pttHandler = "exit")

\* C22: when the PTT subsystem has handled a termination signal, the HID loop
\* is stopped, both streams and both sockets are closed and the codec is
\* released.
C22_ReleasedOnSignal == PttTerminated => Released

\* C23: with PTT enabled the supervisor gets to start the worker pairs and to
\* clear the bat-hosts file (it reaches its wait for a signal) without a
\* termination signal having arrived, as long as the process runs.
C23_MgmtStartsWithPtt == pttOn ~> (delivered > 0 \/ ProcessGone \/ sup = "waiting")

----------------------------------------------------------------------------
(* Claims about the selection functions                                    *)

\* The static_ip values of the decodable records of the argument, none for
\* an empty argument
StaticIPs ==
    LET ips == {r.ip : r \in {x \in RecordsOf(selIn) : Decodable(x)}}
    IN  IF ips = {} THEN {} ELSE ips

\* C24: the selected static IP is the static_ip of no record of the argument
\* (NoIP stands for the error return).
C24_NeverReserved ==
    selOut.ipCalled => (selOut.ip = NoIP \/ selOut.ip \notin StaticIPs)

\* C24 witness: a selection among records that reserve the first candidates
\* of both scans has returned an address.
C24_Witness ==
    /\ selOut.ipCalled /\ selOut.ip # NoIP
    /\ {IP(0, 1), IP(1, 1)} \subseteq StaticIPs

\* Every record of the argument carries a (start, limit) pair of positive
\* offsets
ValidPairs ==
    \A r \in RecordsOf(selIn) : Decodable(r) /\ r.start > 0 /\ r.limit > 0

\* [c, c + l - 1] lies within the usable offsets 1..NetworkSize
Fits(c, l) == c >= 1 /\ c <= NetworkSize /\ l <= NetworkSize - c + 1

\* [c, c + l - 1], which fits, overlaps no range of the argument records
Clear(c, l) ==
    \A r \in {x \in RecordsOf(selIn) : Decodable(x) /\ x.start > 0 /\ x.limit > 0} :
        ~rangesOverlap(c, c + l - 1, r.start, r.start + r.limit - 1)

\* C25: for records with valid (start, limit) pairs and a desired limit
\* L > 0 the DHCP start selection returns an error or a start c such that
\* [c, c+L-1] lies within the usable address space and overlaps no range of
\* the records.
C25_StartClearAndFits ==
    (selOut.startCalled /\ selIn.limit > 0 /\ ValidPairs) =>
        \/ selOut.start = 0
        \/ Fits(selOut.start, selIn.limit) /\ Clear(selOut.start, selIn.limit)

\* Offset c can start a window of the desired limit
Free(c) == Fits(c, selIn.limit) /\ Clear(c, selIn.limit)

\* r is the lowest free offset from lo on
Lowest(lo, r) == r >= lo /\ Free(r) /\ \A c \in lo..(r - 1) : ~Free(c)

\* C26: the DHCP start selection returns the lowest offset c >= 100 whose
\* window fits and overlaps no occupied range when there is one, otherwise
\* the lowest such c >= 1, and an error only when no c >= 1 fits.
C26_LowestStart ==
    (selOut.startCalled /\ selIn.limit > 0) =>
        IF \E c \in 100..NetworkSize : Free(c) THEN Lowest(100, selOut.start)
        ELSE IF \E c \in 1..99 : Free(c) THEN Lowest(1, selOut.start)
        ELSE selOut.start = 0

\* C27: in gateway mode the static-IP selection returns 10.41.0.x for the
\* smallest x in 1..254 that no record reserves, the error when all 254 are
\* reserved, and never an address outside 10.41.0.0/24.
C27_GatewayLowest ==
    (selOut.ipCalled /\ selIn.gw) =>
        LET reserved == StaticIPs
        IN  IF selOut.ip = NoIP THEN \A x \in 1..254 : IP(0, x) \in reserved
            ELSE \E x \in 1..254 :
                    /\ selOut.ip = IP(0, x)
                    /\ IP(0, x) \notin reserved
                    /\ \A y \in 1..(x - 1) : IP(0, y) \in reserved

\* C27 witness: a gateway-mode selection has returned the error, all of
\* 10.41.0.1 .. 10.41.0.254 being reserved.
C27_Witness ==
    /\ selOut.ipCalled /\ selIn.gw /\ selOut.ip = NoIP
    /\ \A x \in 1..254 : IP(0, x) \in StaticIPs

----------------------------------------------------------------------------
(* Claims about the receive tick of the address reservation                 *)

\* The store holds an undecodable payload and the reservation of node 1
MalformedAndValid == Garbage \in Request /\ ConfiguredRec \in Request

\* C29: with one undecodable payload and one valid record in the record set
\* a receive tick that configures the node avoids the static_ip of the valid
\* record, reports exactly one decode error and completes the transition.
C29_MalformedTolerated ==
    \A n \in Nodes :
        (MalformedAndValid /\ tick[n].branch = "unconfigured" /\ tick[n].fail = "none") =>
            /\ netDisk[n] # ConfiguredRec.ip
            /\ Configured(n)
            /\ tick[n].decodeErrs = 1

\* Node n runs a receive tick that publishes a response
Responds(n) ==
    /\ \E f \in FailPoints \cup {"none"} : RecvTick(n, f)
    /\ tick'[n].branch = "configured"
    /\ tick'[n].log = <<"respond">>

\* The reservation node n has settled on: its MAC, the static IP and the
\* DHCP window of its configuration, not requesting
OwnReservation(n) ==
    [present |-> TRUE, mac |-> n, ip |-> netDisk[n],
     start |-> dhcpDisk[n][1], limit |-> dhcpDisk[n][2], req |-> FALSE]

\* C30: a CONFIGURED node publishes a response in a receive tick only if a
\* record of another MAC requests a reservation; the response carries the
\* node's MAC, static IP and DHCP start and limit with requesting_reservation
\* false; a record with the node's own MAC never makes it respond.
C30_ResponseToOthersOnly ==
    [][\A n \in Nodes :
          (Configured(n) /\ Responds(n)) =>
              /\ \E r \in Request : Decodable(r) /\ r.req /\ r.mac # n
              /\ alfred'[n] = OwnReservation(n)]_vars

\* The first address of the bridge is an IPv4 address that is neither
\* loopback nor unspecified
ValidBridgeIPv4(ip) == ip \notin {NoIP, V6Addr, LoopbackAddr, UnspecifiedAddr}

\* C31: a gateway send tick on which nothing fails publishes a Gateway record
\* if and only if gw_mode is server and the bridge's IPv4 address is valid,
\* not loopback and not unspecified; the record's mac is the mesh hard
\* address and its ipaddr the bridge IPv4.
C31_GatewayPublished ==
    [][\A f \in {"none", "hostname"} : GwSendTick(f) =>
          IF IsGatewayMode(gwMode) /\ ValidBridgeIPv4(bridgeIP[1])
          THEN /\ gwStore'.present
               /\ gwStore'.mac = MacA
               /\ gwStore'.ipaddr = IPString(bridgeIP[1])
          ELSE gwStore' = gwStore]_vars

----------------------------------------------------------------------------
\* C32: after any sequence of successful SetDHCPConfigured and
\* ClearDHCPConfigured calls, IsDHCPConfigured through the same reader
\* returns true exactly when the last call was SetDHCPConfigured.
C32_LastCallWins ==
    flagCalls # <<>> /\ flagAnswer # "none"
        => flagAnswer = IF flagCalls[Len(flagCalls)] = "set" THEN "true" ELSE "false"

\* C33: while the stored dhcpconfigured value is neither 0 nor 1 nor unset,
\* a receive tick ends as a failed tick that writes nothing (no
\* reconfiguration) and a send tick publishes no request.
C33_BitRotIsTransient ==
    [][\A n \in Nodes : OMGet(n) \notin {"", "0", "1"} =>
          /\ (\E f \in FailPoints \cup {"none"} : RecvTick(n, f)) =>
                 /\ tick'[n].branch = "error"
                 /\ UNCHANGED <<netDisk, dhcpDisk, omDisk, bridgeIP, alfred>>
          /\ SendCheck(n) => sendPc'[n] = "idle"]_vars

\* C34: a probe made less than 60 s after a successful probe is answered
\* without invoking the mesh CLI, and a probe answered without the CLI is
\* answered from a result obtained at most 60 s before.
C34_ProbeCached ==
    [][\A ok \in BOOLEAN : WorkerTick(ok) =>
          LET age == (now - meshAt) * RecvInterval
          IN  /\ meshAt >= 0 /\ age < MeshCacheTTL => cliCalls' = cliCalls
              /\ cliCalls' = cliCalls => meshAt >= 0 /\ age <= MeshCacheTTL]_vars

\* C35: at most one tick of the loop is executing, and between two firings
\* of the ticker the loop starts at most one tick, however long the
\* previous tick has run.
C35_OneTickAtATime == running <= 1 /\ burst <= 1

\* C35: a tick ran so long that the ticker dropped a tick, and the one
\* pending tick has been started
C35_Witness == missed > 0 /\ running = 1 /\ burst = 1 /\ tickerC = 0

\* C36: when loopback is false, a frame whose source is a loopback address
\* or the bridge address the node has at that moment is never placed on the
\* playback queue.
C36_OwnFramesFiltered ==
    [][\A src \in FrameSources : \A decoded \in BOOLEAN :
          PttReceive(src, decoded)
          /\ ~loopbackAudio /\ (src = LoopbackAddr \/ src = bridgeIP[1])
          => playbackSrc' = playbackSrc]_vars

\* C37: the overlap test is symmetric, overlap(a, b) = overlap(b, a) for all
\* ranges, and two ranges overlap exactly when start1 <= end2 and
\* start2 <= end1; for two well-formed ranges that is: they share an offset.
C37_OverlapSymmetric ==
    selOut.called =>
        LET a == selIn.a
            b == selIn.b
        IN  /\ selOut.ab = selOut.ba
            /\ selOut.ab = (a[1] <= b[2] /\ b[1] <= a[2])
            /\ a[1] <= a[2] /\ b[1] <= b[2] =>
                  (selOut.ab = \E x \in {a[1], b[1]} :
                                   a[1] <= x /\ x <= a[2] /\ b[1] <= x /\ x <= b[2])

\* C37: two different ranges that share exactly one offset, tested in both
\* orders
C37_Witness ==
    /\ selOut.called /\ selOut.ab /\ selOut.ba
    /\ selIn.a[1] < selIn.a[2] /\ selIn.a[2] = selIn.b[1] /\ selIn.b[1] < selIn.b[2]

\* C38: a receive tick that finds one or more gateways in batman-adv's list,
\* none of them flagged best, leaves the default route unchanged and the
\* receive loop running.
C38_NoBestKeepsRunning ==
    [][\A f \in GwFailPoints \cup {"none"} :
          GwRecvTick(f) /\ Len(batGwys) >= 1 /\ GetBest(batGwys) = 0
          => route' = route /\ ~gwPanic']_vars

\* C39: a receive tick that follows a tick in which only the write of
\* dhcpconfigured failed (sections written, network reloaded) selects the
\* same static IP and the same DHCP start again, also when the node's own
\* request record advertises the bridge IP the failed tick applied.
C39_RetrySameReservation ==
    [][\A n \in Nodes :
          /\ tick[n].fail = "flag"
          /\ alfred[n] = RequestRec(n, bridgeIP[n])
          /\ bridgeIP[n] = netDisk[n]
          /\ RecvTick(n, "none")
          => /\ tick'[n].fail = "none"
             /\ netDisk'[n] = netDisk[n]
             /\ dhcpDisk'[n] = dhcpDisk[n]]_vars

\* C40 (termination): for every record set and every positive limit the
\* selection of the DHCP start returns.
DHCPStartReturns == selIn.limit > 0 ~> selOut.pc = "done"

\* C40: for every record set and every positive limit, in both passes every
\* conflict moves the candidate strictly upwards (which is why each pass
\* ends with a result or past the usable network size).
C40_CandidateIncreases ==
    [][selIn.limit > 0 /\ selOut'.conflicts = selOut.conflicts + 1
          => selOut'.candidate > selOut.candidate]_vars

====
